---- MODULE Spec2Model ----
(***************************************************************************)
(* A model of the SQL driver core of go-sqlite (src/sqlite.go).            *)
(*                                                                         *)
(* src/sqlite.go holds two builds of the driver core:                      *)
(*   "modernc"  lines 1..1105    (modernc.org/crt/v2)                      *)
(*   "cznic"    lines 1107..2181 (github.com/cznic/crt)                    *)
(* The variable `variant` says which build a behaviour runs.  The engine   *)
(* image (sqlite3_prepare_v2, sqlite3_step, ...) is the environment: its   *)
(* answers are drawn nondeterministically from what the engine's API can   *)
(* return.                                                                 *)
(*                                                                         *)
(* A third build, the bytecode-VM build of src/sqlite_version_test.go, is  *)
(* modelled for its open-connection counter only (variant "vm").           *)
(***************************************************************************)
EXTENDS Integers, Sequences, FiniteSets, TLC

VARIABLES
    variant,   \* "modernc" | "cznic": the build of src/sqlite.go
    pc,        \* position of the foreground caller (one caller per connection)
    stmts,     \* host-level Statement objects, by statement id
    calls,     \* Exec/Query calls made so far; the last one is the current call
    heap,      \* boundary allocations (crt.Xmalloc / sqlite3_malloc), by pointer
    estmts,    \* engine statements (sqlite3_stmt), by handle
    intr,      \* sqlite3_interrupt calls issued by the watcher tasks
    faults,    \* allocation / engine-bind failures injected so far
    lockw,     \* the lock wait (conn.retry) of the foreground caller
    gate,      \* the gate mutexes of conn.retry and the unlock callback
    conns,     \* vm build: sqlite.conns, the open-connection counter
    vm,        \* vm build: the shared engine instance (package variable vm)
    pool,      \* vm build: the connections newConn was called for
    tasks,     \* the goroutines of the concurrent-insert scenario
    table,     \* the rows of table t, in insertion order
    rnd,       \* the values the generator has not handed out yet
    mu,        \* the task that holds the connection (0: none)
    eval,      \* the pure function under evaluation: its inputs and result
    cp,        \* tpch: the state of one cpTable call
    gen,       \* generator.go: the state of one run of main
    driver     \* tpch/driver: the map `registered` and the last call on it

lockVars == <<lockw, gate>>
poolVars == <<conns, vm, pool>>
taskVars == <<tasks, table, rnd, mu>>
toolVars == <<eval, cp, gen, driver>>

vars == <<variant, pc, stmts, calls, heap, estmts, intr, faults,
          lockVars, poolVars, taskVars, toolVars>>

\* tpch/driver: nothing registered, no call made
NoDriver == [registered |-> <<>>, log |-> <<>>, op |-> "none", arg |-> "none",
             before |-> <<>>, ret |-> "none"]

\* the tools outside the driver, not running
NoEval == [fn |-> "none"]
NoCopy == [pc |-> "none"]
NoGen == [pc |-> "none"]

(***************************************************************************)
(* Bounds of the model.                                                    *)
(***************************************************************************)
MaxSub == 2        \* sub-statements in one SQL text
MaxArgs == 1       \* caller arguments of one call
MaxParams == 1     \* placeholders of one sub-statement
MaxBindArgs == 2   \* caller arguments of one call (binding specification)
MaxBindParams == 3 \* placeholders of one sub-statement (binding specification)
MaxStmts == 1      \* Prepare calls in one behaviour
MaxCalls == 1      \* Exec/Query calls in one behaviour
MaxFaults == 1     \* injected malloc / engine-bind failures in one behaviour
MaxRows == 2       \* rows a cursor delivers
MaxWaits == 2      \* lock waits (conn.retry calls) in one behaviour
MaxConns == 3      \* newConn calls in one behaviour (vm build)
MaxCloses == 2     \* conn.Close calls on one connection
NTasks == 2        \* goroutines that insert (ngoroutines)
NRows == 2         \* rows each goroutine inserts (nrows)
MaxTries == 2      \* Exec attempts per row (10 in the test)

Variants == {"modernc", "cznic"}

Min(S) == CHOOSE x \in S : \A y \in S : x <= y

(***************************************************************************)
(* Caller arguments: driver.NamedValue {Name, Ordinal, Value}.             *)
(* A Value is [type, v]: its dynamic Go type and a payload that tells the  *)
(* arguments of one call apart.                                            *)
(***************************************************************************)
ArgNames == {"one", "two"}

NilValue == [type |-> "nil", v |-> 0]

\* the zero driver.NamedValue: what `var v driver.NamedValue` holds
ZeroArg == [Name |-> "", Ordinal |-> 0, Value |-> NilValue]

\* types whose bind copies the value into a boundary buffer
BufferTypes == {"string", "bytes", "time"}

\* types the type switch of bind accepts
BindableTypes == {"int64", "float64", "bool"} \cup BufferTypes

\* dynamic types a caller can hand to the driver besides those: the nil
\* driver.Value, and a Go int passed without database/sql's conversion
OtherTypes == {"nil", "int"}

\* argument lists over the given names and types: the k-th has Ordinal k
\* (database/sql numbers them), and no name is given twice
ArgLists(names, types, maxLen) ==
    LET raw == UNION {[1..n -> (names \cup {""}) \X types] : n \in 0..maxLen}
        ok(f) == \A i, j \in DOMAIN f : (i # j /\ f[i][1] # "") => f[i][1] # f[j][1]
    IN {[k \in DOMAIN f |-> [Name |-> f[k][1], Ordinal |-> k,
                             Value |-> [type |-> f[k][2], v |-> k]]] :
           f \in {g \in raw : ok(g)}}

(***************************************************************************)
(* Placeholders as the engine reports them (sqlite3_bind_parameter_name):  *)
(* "" for a plain `?`, "?N" for `?N` (always at index N), and the name     *)
(* with its prefix for `:x`, `@x`, `$x`.  [prefix, body] is the string     *)
(* prefix \o body; name[1:] in the code is body.                           *)
(***************************************************************************)
Digits == <<"1", "2", "3", "4", "5", "6", "7", "8", "9">>

Anon == [prefix |-> "", body |-> ""]
Numbered(i) == [prefix |-> "?", body |-> Digits[i]]
Named(p, x) == [prefix |-> p, body |-> x]

Prefixes == {":", "@", "$"}

\* the name lists a prepared sub-statement can have: a named placeholder
\* that repeats shares one index, so no name occurs at two indexes
ParamLists(names, maxLen) ==
    LET raw == UNION {[1..n -> {Anon, Numbered(1)} \cup
                                {Named(p, x) : p \in Prefixes, x \in names}] :
                       n \in 0..maxLen}
        fix(f) == [i \in DOMAIN f |-> IF f[i].prefix = "?" THEN Numbered(i) ELSE f[i]]
        ok(f) == \A i, j \in DOMAIN f :
                    (i # j /\ f[i].prefix \in Prefixes) => f[i] # f[j]
    IN {fix(f) : f \in {g \in raw : ok(g)}}

(***************************************************************************)
(* Boundary allocations.  A pointer is an index of `heap`; 0 is the null   *)
(* pointer.  Every allocation gets a fresh pointer, so a second free of    *)
(* the same allocation is visible as frees = 2.                            *)
(***************************************************************************)
HeapEntry(kind, call) == [kind |-> kind, call |-> call, frees |-> 0]

\* conn.malloc / crt.CString / sqlite3_malloc: the new heap
malloc(h, kind, call) == Append(h, HeapEntry(kind, call))

\* conn.free: free(0) does nothing
free(h, p) ==
    IF p = 0 THEN h
    ELSE [h EXCEPT ![p].frees = IF @ >= 2 THEN 2 ELSE @ + 1]

\* `for _, v := range allocs { free(v) }`
RECURSIVE freeAll(_, _)
freeAll(h, ps) ==
    IF ps = <<>> THEN h ELSE freeAll(free(h, Head(ps)), Tail(ps))

(***************************************************************************)
(* Injected failures: the allocation or the engine bind call made for the  *)
(* placeholder at index `at` fails.  at = 0: nothing fails.                *)
(***************************************************************************)
NoFault == [at |-> 0, kind |-> "rc"]
Faults(n) == {NoFault} \cup {[at |-> i, kind |-> k] : i \in 1..n, k \in {"malloc", "rc"}}

(***************************************************************************)
(* Error values.  A binding error is its fmt.Errorf format string.         *)
(***************************************************************************)
NoErr == ""
ErrMissingNamed == "missing named argument %q"
ErrMissingIndex == "missing argument with %d index"
ErrInvalidType == "invalid driver.Value type %T"
ErrNoMem == "cannot allocate memory"
ErrEngine == "errstr"                 \* conn.errstr(rc): an engine rejection
ErrMultiple == "query contains multiple select statements"
ErrBusy == "database is locked (5)"
ErrLockedSharedCache == "database table is locked (262)"
ErrDeadlock == "database table is locked (6)"

\* the engine's lock answers the modernc build waits on: SQLITE_BUSY and
\* sqliteLockedSharedcache = SQLITE_LOCKED | (1 << 8)
LockCodes == {"BUSY", "LOCKED_SHAREDCACHE"}

\* conn.errstr(rc): the error built from an engine result code
errstr(rc) ==
    IF rc = "BUSY" THEN ErrBusy
    ELSE IF rc = "LOCKED_SHAREDCACHE" THEN ErrLockedSharedCache
    ELSE IF rc = "LOCKED" THEN ErrDeadlock
    ELSE ErrEngine

BindingErrors == {ErrMissingNamed, ErrMissingIndex, ErrInvalidType}

Unbound == [type |-> "unbound", v |-> 0]

(***************************************************************************)
(* conn.bind (modernc) / stmt.bind (cznic).                                *)
(***************************************************************************)
\* the inner `for _, v = range args` loop with its breaks: the first
\* argument that matches, else whatever the loop variable is left holding:
\* the last argument, or the zero NamedValue when there are no arguments
rangeArgsByOrdinal(name, i, args) ==
    LET hits == {k \in DOMAIN args : args[k].Ordinal = i}
    IN IF hits # {} THEN args[Min(hits)]
       ELSE IF args = <<>> THEN ZeroArg
       ELSE args[Len(args)]

rangeArgs(name, i, args) ==
    LET hit(k) == IF name.prefix # ""
                  THEN name.body = args[k].Name
                  ELSE args[k].Ordinal = i
        hits == {k \in DOMAIN args : hit(k)}
    IN IF hits # {} THEN args[Min(hits)]
       ELSE IF args = <<>> THEN ZeroArg
       ELSE args[Len(args)]

\* one iteration of the placeholder loop, on st = [heap, allocs, bound, err]
bindOneAnyType(var, call, name, i, args, fault, st) ==
    LET v == rangeArgs(name, i, args)
        failed(k) == fault.at = i /\ fault.kind = k
        p == Len(st.heap) + 1
        grown == malloc(st.heap, "buf", call)
    IN IF v.Ordinal = 0
       THEN [st EXCEPT !.err = IF name.prefix # "" THEN ErrMissingNamed
                               ELSE ErrMissingIndex]
       ELSE IF v.Value.type \in BufferTypes
       THEN \* bindText / bindBlob
            IF failed("malloc") THEN [st EXCEPT !.err = ErrNoMem]
            ELSE IF failed("rc")
            THEN IF var = "modernc"
                 THEN [st EXCEPT !.heap = free(grown, p), !.err = ErrEngine]
                 ELSE [st EXCEPT !.heap = grown, !.allocs = Append(@, p),
                                 !.err = ErrEngine]
            ELSE [st EXCEPT !.heap = grown, !.allocs = Append(@, p),
                            !.bound[i] = v.Value]
       ELSE IF TRUE
       THEN \* bindInt64 / bindDouble / bindInt
            IF failed("rc") THEN [st EXCEPT !.err = ErrEngine]
            ELSE [st EXCEPT !.bound[i] = v.Value]
       ELSE [st EXCEPT !.err = ErrInvalidType]

bindOne(var, call, name, i, args, fault, st) ==
    LET v == rangeArgs(name, i, args)
        failed(k) == fault.at = i /\ fault.kind = k
        p == Len(st.heap) + 1
        grown == malloc(st.heap, "buf", call)
    IN IF v.Ordinal = 0
       THEN [st EXCEPT !.err = IF name.prefix # "" THEN ErrMissingNamed
                               ELSE ErrMissingIndex]
       ELSE IF v.Value.type \in BufferTypes
       THEN \* bindText / bindBlob
            IF failed("malloc") THEN [st EXCEPT !.err = ErrNoMem]
            ELSE IF failed("rc")
            THEN IF var = "modernc"
                 THEN [st EXCEPT !.heap = free(grown, p), !.err = ErrEngine]
                 ELSE [st EXCEPT !.heap = grown, !.allocs = Append(@, p),
                                 !.err = ErrEngine]
            ELSE [st EXCEPT !.heap = grown, !.allocs = Append(@, p),
                            !.bound[i] = v.Value]
       ELSE IF v.Value.type \in BindableTypes
       THEN \* bindInt64 / bindDouble / bindInt
            IF failed("rc") THEN [st EXCEPT !.err = ErrEngine]
            ELSE [st EXCEPT !.bound[i] = v.Value]
       ELSE [st EXCEPT !.err = ErrInvalidType]

RECURSIVE bindLoop(_, _, _, _, _, _, _)
bindLoop(var, call, names, i, args, fault, st) ==
    IF i > Len(names) \/ st.err # NoErr THEN st
    ELSE bindLoop(var, call, names, i + 1, args, fault,
                  bindOne(var, call, names[i], i, args, fault, st))

\* bind: [heap, allocs, bound, err].  `allocs0` is s.allocs in the cznic
\* build (bind appends to it) and empty in the modernc build, where bind
\* returns its own allocations and frees them itself when it fails.
bind(var, call, names, args, fault, h, allocs0) ==
    LET st == bindLoop(var, call, names, 1, args, fault,
                       [heap |-> h, allocs |-> allocs0,
                        bound |-> [i \in 1..Len(names) |-> Unbound], err |-> NoErr])
    IN IF var = "modernc" /\ st.err # NoErr
       THEN [st EXCEPT !.heap = freeAll(st.heap, st.allocs), !.allocs = <<>>]
       ELSE st

(***************************************************************************)
(* Statement objects (type stmt) and newStmt.                              *)
(***************************************************************************)
NoStmt == [psql |-> 0, ppstmt |-> 0, pzTail |-> 0, allocs |-> <<>>,
           nsub |-> 0, temp |-> FALSE]

\* allocations newStmt makes: the SQL text, and in the cznic build the two
\* output cells ppstmt and pzTail
newStmtAllocs(var) == IF var = "modernc" THEN 1 ELSE 3

\* newStmt: [err, heap, s].  failAt names the allocation that fails (0: none)
newStmt(var, h, nsub, call, temp, failAt) ==
    LET p1 == Len(h) + 1
        h1 == malloc(h, "sql", call)
        h2 == malloc(h1, "cell", call)
        h3 == malloc(h2, "cell", call)
        fail(hh) == [err |-> ErrNoMem, heap |-> hh, s |-> NoStmt]
        mk(hh, a, b, c) == [err |-> NoErr, heap |-> hh,
                            s |-> [psql |-> a, ppstmt |-> b, pzTail |-> c,
                                   allocs |-> <<>>, nsub |-> nsub, temp |-> temp]]
    IN IF failAt = 1 THEN fail(h)
       ELSE IF var = "modernc" THEN mk(h1, p1, 0, 0)
       ELSE IF failAt = 2 THEN fail(free(h1, p1))
       ELSE IF failAt = 3 THEN fail(free(free(h2, p1), p1 + 1))
       ELSE mk(h3, p1, p1 + 1, p1 + 2)

\* stmt.Close: [heap, s]
stmtClose(var, h, s) ==
    IF var = "modernc"
    THEN [heap |-> free(h, s.psql), s |-> [s EXCEPT !.psql = 0]]
    ELSE [heap |-> freeAll(free(free(free(h, s.psql), s.ppstmt), s.pzTail), s.allocs),
          s |-> [s EXCEPT !.psql = 0, !.ppstmt = 0, !.pzTail = 0, !.allocs = <<>>]]

(***************************************************************************)
(* Engine statements and cursors.                                          *)
(***************************************************************************)
\* sqlite3_finalize: finalize(0) is a harmless no-op
finalize(es, pstmt) ==
    IF pstmt = 0 THEN es
    ELSE [es EXCEPT ![pstmt].fin = IF @ >= 2 THEN 2 ELSE @ + 1]

\* sqlite3_column_count: 0 for the null statement
columnCount(es, pstmt) == IF pstmt = 0 THEN 0 ELSE es[pstmt].ncols

NoRows == [live |-> FALSE, pstmt |-> 0, allocs |-> <<>>, doStep |-> FALSE,
           rc0 |-> "ROW", ncols |-> 0, closes |-> 0, last |-> "none", nrows |-> 0,
           ncalls |-> 0, err |-> NoErr]

\* newRows: the cursor object.  The modernc build hands it the allocations
\* bound so far; the cznic build hands it the first step's result code.
newRows(es, pstmt, allocs, rc0) ==
    [NoRows EXCEPT !.live = TRUE, !.pstmt = pstmt, !.allocs = allocs,
                   !.rc0 = rc0, !.ncols = columnCount(es, pstmt)]

(***************************************************************************)
(* Calls.                                                                  *)
(***************************************************************************)
CurNo == Len(calls)
Cur == calls[CurNo]
CurStmt == stmts[Cur.sid]

NewCall(op, via, sid, args, ctx) ==
    [op |-> op, via |-> via, sid |-> sid, args |-> args, ctx |-> ctx,
     pos |-> 0,              \* sub-statements of the text consumed so far
     pstmt |-> 0,            \* the local `pstmt` the watcher reads
     names |-> <<>>,         \* placeholders of the current sub-statement
     bound |-> <<>>,         \* values bound to the current sub-statement
     allocs |-> <<>>,        \* modernc: the local `allocs`
     rowStmt |-> 0,          \* cznic query: the adopted statement
     rc0 |-> "none",         \* cznic query: rc0 (0 until a step sets it)
     r |-> NoRows,           \* the result `r` of query
     nrow |-> 0,             \* sub-statements of this call that stepped to ROW
     donech |-> "open",
     watcher |-> "spawned",
     took |-> "none",        \* the case the watcher's select took
     res |-> "running",      \* running | ok | err | panic
     err |-> NoErr]

\* no lock wait
NoLock == [at |-> "none", op |-> "none", k |-> 0, rc |-> "none", cells |-> <<>>,
           ecalls |-> 0, gates |-> 0, notify |-> "none", n |-> 0]

\* no gate mutex allocated, no unlock callback registered
NoGate == [at |-> "none", mus |-> <<>>, registered |-> FALSE, fired |-> FALSE,
           firedAt |-> "none"]

\* no engine instance; nilUse: a method was called on the nil instance
NoVM == [up |-> FALSE, made |-> 0, closed |-> 0, nilUse |-> FALSE]

\* a connection just opened by the host (sql.Open registers no statement,
\* no call); the build is v
Opened(v) ==
    /\ variant = v
    /\ pc = "idle"
    /\ stmts = <<>>
    /\ calls = <<>>
    /\ heap = <<>>
    /\ estmts = <<>>
    /\ intr = {}
    /\ faults = 0
    /\ lockw = NoLock
    /\ gate = NoGate
    /\ conns = 0
    /\ vm = NoVM
    /\ pool = <<>>
    /\ tasks = <<>>
    /\ table = <<>>
    /\ rnd = {}
    /\ mu = 0

\* no tool outside the driver is running
ToolsIdle == eval = NoEval /\ cp = NoCopy /\ gen = NoGen /\ driver = NoDriver

Init == \E v \in Variants : Opened(v) /\ ToolsIdle

\* an injected failure is within the budget
Injected(failed) == IF failed THEN faults < MaxFaults /\ faults' = faults + 1
                    ELSE faults' = faults

(***************************************************************************)
(* conn.Prepare                                                            *)
(***************************************************************************)
Prepare(nsub, failAt) ==
    /\ pc = "idle"
    /\ Cardinality({i \in DOMAIN stmts : ~stmts[i].temp}) < MaxStmts
    /\ failAt \in 0..newStmtAllocs(variant)
    /\ Injected(failAt # 0)
    /\ LET n == newStmt(variant, heap, nsub, 0, FALSE, failAt)
       IN /\ heap' = n.heap
          /\ stmts' = IF n.err = NoErr THEN Append(stmts, n.s) ELSE stmts
    /\ UNCHANGED <<variant, pc, calls, estmts, intr,
                 lockVars, poolVars, taskVars, toolVars>>

(***************************************************************************)
(* The exit of stmt.exec / stmt.query and of conn.exec / conn.query: the   *)
(* deferred functions run, then the call returns.  `c` is the call record  *)
(* with its result set; h, es are the heap and the engine statements at    *)
(* that point.                                                             *)
(***************************************************************************)
FinishDonechOpen(c, h, es, ss) ==
    LET c1 == [c EXCEPT !.pstmt = IF variant = "modernc" THEN 0 ELSE @,
                        !.r = IF c.res = "ok" /\ c.op = "query" THEN @ ELSE NoRows]
        cl == stmtClose(variant, h, ss[c.sid])
    IN /\ calls' = [calls EXCEPT ![CurNo] = c1]
       /\ estmts' = es
       /\ IF c.via = "conn"
          THEN heap' = cl.heap /\ stmts' = [ss EXCEPT ![c.sid] = cl.s]
          ELSE heap' = h /\ stmts' = ss
       /\ pc' = "idle"

Finish(c, h, es, ss) ==
    LET c1 == [c EXCEPT !.pstmt = IF variant = "modernc" THEN 0 ELSE @,
                        !.donech = "closed",
                        !.r = IF c.res = "ok" /\ c.op = "query" THEN @ ELSE NoRows]
        cl == stmtClose(variant, h, ss[c.sid])
    IN /\ calls' = [calls EXCEPT ![CurNo] = c1]
       /\ estmts' = es
       /\ IF c.via = "conn"
          THEN heap' = cl.heap /\ stmts' = [ss EXCEPT ![c.sid] = cl.s]
          ELSE heap' = h /\ stmts' = ss
       /\ pc' = "idle"

Fail(c, e) == [c EXCEPT !.res = "err", !.err = e]

(***************************************************************************)
(* stmt.Exec / stmt.Query / conn.Exec / conn.Query: up to the loop.        *)
(***************************************************************************)
StmtCall(op, sid, args, ctx) ==
    /\ pc = "idle"
    /\ Len(calls) < MaxCalls
    /\ sid \in DOMAIN stmts /\ ~stmts[sid].temp /\ stmts[sid].psql # 0
    /\ calls' = Append(calls, NewCall(op, "stmt", sid, args, ctx))
    /\ pc' = "loop"
    /\ UNCHANGED <<variant, stmts, heap, estmts, intr, faults,
                 lockVars, poolVars, taskVars, toolVars>>

ConnCall(op, nsub, args, ctx, failAt) ==
    /\ pc = "idle"
    /\ Len(calls) < MaxCalls
    /\ failAt \in 0..newStmtAllocs(variant)
    /\ Injected(failAt # 0)
    /\ LET k == Len(calls) + 1
           n == newStmt(variant, heap, nsub, k, TRUE, failAt)
           c == NewCall(op, "conn", Len(stmts) + 1, args, ctx)
       IN /\ heap' = n.heap
          /\ IF n.err = NoErr
             THEN /\ stmts' = Append(stmts, n.s)
                  /\ calls' = Append(calls, c)
                  /\ pc' = "loop"
             ELSE \* c.prepare failed: no statement, no watcher
                  /\ stmts' = Append(stmts, [NoStmt EXCEPT !.temp = TRUE])
                  /\ calls' = Append(calls, [Fail(c, n.err) EXCEPT
                                               !.watcher = "none", !.donech = "none"])
                  /\ pc' = "idle"
    /\ UNCHANGED <<variant, estmts, intr,
                 lockVars, poolVars, taskVars, toolVars>>

(***************************************************************************)
(* The sub-statement loop of stmt.exec / stmt.query.                       *)
(***************************************************************************)
SegKinds == {"blank", "bad", "dml", "select"}

\* an engine statement: `pos` is the sub-statement of the text it compiles,
\* `steps` the sqlite3_step calls made on it, `last` the result of the last
\* one, `rows` the rows it has produced
NewEStmt(call, pos, kind) ==
    [call |-> call, pos |-> pos, kind |-> kind,
     ncols |-> IF kind = "select" THEN 1 ELSE 0,
     steps |-> 0, last |-> "none", rows |-> 0, resets |-> 0, fin |-> 0]

\* allocations prepareV2 makes: the modernc build allocates its two output
\* cells on every call; the cznic build uses the cells of the statement
prepareAllocs(var) == IF var = "modernc" THEN 2 ELSE 0

\* prepareV2 on the next sub-statement of the text: [err, heap, estmts, pstmt].
\* The engine compiles a "dml" or "select" segment, answers OK with a null
\* statement for a "blank" one (white space, a comment) and rejects a "bad"
\* one.  The modernc build frees its two cells on every path.
prepareV2(var, h, es, call, pos, kind, failAt) ==
    LET c1 == Len(h) + 1
        h1 == malloc(h, "cell", call)
        h2 == malloc(h1, "cell", call)
        hOut == IF var = "modernc" THEN free(free(h2, c1), c1 + 1) ELSE h
        out(e, hh, ee, p) == [err |-> e, heap |-> hh, estmts |-> ee, pstmt |-> p]
    IN IF var = "modernc" /\ failAt = 1 THEN out(ErrNoMem, h, es, 0)
       ELSE IF var = "modernc" /\ failAt = 2 THEN out(ErrNoMem, free(h1, c1), es, 0)
       ELSE IF kind = "bad" THEN out(ErrEngine, hOut, es, 0)
       ELSE IF kind = "blank" THEN out(NoErr, hOut, es, 0)
       ELSE out(NoErr, hOut, Append(es, NewEStmt(call, pos, kind)), Len(es) + 1)

\* prepareV2 has returned pr = [err, heap, estmts, pstmt]: the return on
\* an error, else on to bindParameterCount (or to the next turn of the loop
\* when the segment held no statement)
Prepared(pr, names) ==
    IF pr.err # NoErr
    THEN \* `pstmt, err = prepareV2(...)` clears pstmt in the modernc
         \* build; the cznic build returns before it reads *ppstmt
         Finish(Fail([Cur EXCEPT !.pstmt = IF variant = "modernc" THEN 0 ELSE @],
                     pr.err), pr.heap, pr.estmts, stmts)
    ELSE /\ calls' = [calls EXCEPT ![CurNo] =
                        [Cur EXCEPT !.pos = @ + 1, !.pstmt = pr.pstmt,
                                    !.names = names, !.bound = <<>>]]
         /\ heap' = pr.heap
         /\ estmts' = pr.estmts
         /\ stmts' = stmts
         /\ pc' = IF pr.pstmt = 0 THEN "loop" ELSE "prepared"

SubPrepare(kind, names, failAt) ==
    /\ pc = "loop"
    /\ Cur.pos < CurStmt.nsub
    /\ kind \in SegKinds
    /\ kind \in {"blank", "bad"} => names = <<>>
    /\ failAt \in 0..prepareAllocs(variant)
    /\ Injected(failAt # 0)
    /\ Prepared(prepareV2(variant, heap, estmts, CurNo, Cur.pos + 1, kind, failAt),
                names)
    /\ UNCHANGED <<variant, intr,
                 lockVars, poolVars, taskVars, toolVars>>

\* bindParameterCount, then bind when it is not 0
SubBind(fault) ==
    /\ pc = "prepared"
    /\ fault \in Faults(Len(Cur.names))
    /\ LET st == bind(variant, CurNo, Cur.names, Cur.args, fault, heap,
                      IF variant = "cznic" THEN CurStmt.allocs ELSE <<>>)
           fired == st.err \in {ErrNoMem, ErrEngine}
           ss == IF variant = "cznic"
                 THEN [stmts EXCEPT ![Cur.sid].allocs = st.allocs] ELSE stmts
       IN /\ (fault # NoFault) = fired
          /\ Injected(fired)
          /\ IF st.err # NoErr
             THEN \* modernc: the deferred finalize runs; cznic: `return nil, err`
                  Finish(Fail([Cur EXCEPT !.bound = st.bound], st.err), st.heap,
                         IF variant = "modernc" THEN finalize(estmts, Cur.pstmt)
                         ELSE estmts, ss)
             ELSE /\ calls' = [calls EXCEPT ![CurNo] =
                                 [Cur EXCEPT !.bound = st.bound,
                                             !.allocs = IF variant = "cznic" THEN @
                                                        ELSE IF Cur.op = "query"
                                                        THEN @ \o st.allocs
                                                        ELSE st.allocs]]
                  /\ heap' = st.heap
                  /\ stmts' = ss
                  /\ estmts' = estmts
                  /\ pc' = "bound"
    /\ UNCHANGED <<variant, intr,
                 lockVars, poolVars, taskVars, toolVars>>

\* what sqlite3_step can answer for a statement of the given kind
StepResults(kind) == IF kind = "select" THEN {"ROW", "DONE", "ERR"}
                     ELSE {"DONE", "ERR"}

\* conn.step / stmt.step: the engine statement after one more step, which
\* answered rc
step(es, pstmt, rc) ==
    [es EXCEPT ![pstmt].steps = @ + 1, ![pstmt].last = rc,
               ![pstmt].rows = IF rc = "ROW" THEN @ + 1 ELSE @]

\* the rest of the loop body after bind, on result code rc of the step:
\* [c, heap, estmts, done] with done = TRUE when the call returns
afterStepContinue(var, c, h, es, rc) ==
    LET p == c.pstmt
        go(cc, hh, ee) == [c |-> cc, heap |-> hh, estmts |-> ee, done |-> FALSE]
        stop(cc, hh, ee) == [c |-> cc, heap |-> hh, estmts |-> ee, done |-> TRUE]
        counted == [c EXCEPT !.nrow = IF rc = "ROW" THEN @ + 1 ELSE @]
    IN IF var = "modernc" /\ c.op = "exec"
       THEN \* deferred: free this sub-statement's allocs, then finalize
            LET cc == [counted EXCEPT !.allocs = <<>>]
                hh == freeAll(h, c.allocs)
                ee == finalize(es, p)
            IN go(cc, hh, ee)
       ELSE IF var = "modernc"
       THEN IF rc = "ROW"
            THEN \* the statement is adopted: pstmt = 0, finalize(0) is a no-op
                 go([counted EXCEPT !.r = newRows(es, p, c.allocs, "ROW"),
                                    !.pstmt = 0], h, es)
            ELSE IF rc = "DONE" THEN go(c, h, finalize(es, p))
            ELSE stop(Fail(c, errstr(rc)), h, finalize(es, p))
       ELSE IF c.op = "exec"
       THEN go(counted, h, finalize(es, p))
       ELSE IF rc = "ROW"
            THEN IF c.rowStmt # 0
                 THEN stop(Fail(counted, ErrMultiple), h, finalize(es, p))
                 ELSE go([counted EXCEPT !.rowStmt = p, !.rc0 = "ROW"], h, es)
            ELSE IF rc = "DONE"
            THEN go([c EXCEPT !.rc0 = IF c.rowStmt = 0 THEN "DONE" ELSE @], h, es)
            ELSE stop(Fail(c, errstr(rc)), h, finalize(es, p))

afterStep(var, c, h, es, rc) ==
    LET p == c.pstmt
        go(cc, hh, ee) == [c |-> cc, heap |-> hh, estmts |-> ee, done |-> FALSE]
        stop(cc, hh, ee) == [c |-> cc, heap |-> hh, estmts |-> ee, done |-> TRUE]
        counted == [c EXCEPT !.nrow = IF rc = "ROW" THEN @ + 1 ELSE @]
    IN IF var = "modernc" /\ c.op = "exec"
       THEN \* deferred: free this sub-statement's allocs, then finalize
            LET cc == [counted EXCEPT !.allocs = <<>>]
                hh == freeAll(h, c.allocs)
                ee == finalize(es, p)
            IN IF rc \notin {"ROW", "DONE"} THEN stop(Fail(cc, errstr(rc)), hh, ee)
               ELSE go(cc, hh, ee)
       ELSE IF var = "modernc"
       THEN IF rc = "ROW"
            THEN \* the statement is adopted: pstmt = 0, finalize(0) is a no-op
                 go([counted EXCEPT !.r = newRows(es, p, c.allocs, "ROW"),
                                    !.pstmt = 0], h, es)
            ELSE IF rc = "DONE" THEN go(c, h, finalize(es, p))
            ELSE stop(Fail(c, errstr(rc)), h, finalize(es, p))
       ELSE IF c.op = "exec"
       THEN IF rc \notin {"ROW", "DONE"}
            THEN stop(Fail(c, errstr(rc)), h, finalize(es, p))
            ELSE go(counted, h, finalize(es, p))
       ELSE IF rc = "ROW"
            THEN IF c.rowStmt # 0
                 THEN stop(Fail(counted, ErrMultiple), h, finalize(es, p))
                 ELSE go([counted EXCEPT !.rowStmt = p, !.rc0 = "ROW"], h, es)
            ELSE IF rc = "DONE"
            THEN go([c EXCEPT !.rc0 = IF c.rowStmt = 0 THEN "DONE" ELSE @], h, es)
            ELSE stop(Fail(c, errstr(rc)), h, finalize(es, p))

\* conn.step has answered rc: the switch on it, and the return or the next
\* turn of the loop
Stepped(rc) ==
    LET a == afterStep(variant, Cur, heap, step(estmts, Cur.pstmt, rc), rc)
    IN IF a.done
       THEN Finish(a.c, a.heap, a.estmts, stmts)
       ELSE /\ calls' = [calls EXCEPT ![CurNo] = a.c]
            /\ heap' = a.heap
            /\ estmts' = a.estmts
            /\ stmts' = stmts
            /\ pc' = "loop"

SubStep(rc) ==
    /\ pc = "bound"
    /\ rc \in StepResults(estmts[Cur.pstmt].kind)
    /\ Stepped(rc)
    /\ UNCHANGED <<variant, intr, faults,
                 lockVars, poolVars, taskVars, toolVars>>

\* the code after the loop: [c with res set]
afterLoop(var, c, es) ==
    IF c.op = "exec" THEN [c EXCEPT !.res = "ok"]            \* newResult
    ELSE IF var = "modernc"
    THEN IF c.r.live THEN [c EXCEPT !.res = "ok"]
         ELSE [c EXCEPT !.res = "panic"]                     \* panic("TODO")
    ELSE [c EXCEPT !.res = "ok", !.r = newRows(es, c.rowStmt, <<>>, c.rc0)]

LoopEnd ==
    /\ pc = "loop"
    /\ Cur.pos = CurStmt.nsub
    /\ Finish(afterLoop(variant, Cur, estmts), heap, estmts, stmts)
    /\ UNCHANGED <<variant, intr, faults,
                 lockVars, poolVars, taskVars, toolVars>>

(***************************************************************************)
(* stmt.Close, rows.Next, rows.Close: calls the host makes between         *)
(* Exec/Query calls.                                                       *)
(***************************************************************************)
StmtClose(sid) ==
    /\ pc = "idle"
    /\ sid \in DOMAIN stmts
    /\ ~stmts[sid].temp
    /\ LET cl == stmtClose(variant, heap, stmts[sid])
       IN /\ heap' = cl.heap
          /\ stmts' = [stmts EXCEPT ![sid] = cl.s]
    /\ UNCHANGED <<variant, pc, calls, estmts, intr, faults,
                 lockVars, poolVars, taskVars, toolVars>>

\* the cursors the host holds: the results of the Query calls that succeeded
Cursors == {k \in DOMAIN calls : calls[k].res = "ok" /\ calls[k].op = "query"}

\* the result code rows.Next switches on when it does not step
firstRc(var, r) == IF var = "modernc" THEN "ROW" ELSE r.rc0

\* rows.Next with result code rc of its step (rc is ignored on the first
\* call, which does not step): [r, estmts].  sqlite3_step(NULL) is a misuse.
rowsNextAlwaysStep(var, r, es, rc) ==
    LET code == IF r.pstmt = 0 THEN "ERR" ELSE rc
        ee == IF r.pstmt # 0 THEN step(es, r.pstmt, rc) ELSE es
    IN [r |-> [r EXCEPT !.doStep = TRUE,
                        !.ncalls = @ + 1,
                        !.last = IF code = "ROW" THEN "row"
                                 ELSE IF code = "DONE" THEN "eof" ELSE "err",
                        !.err = IF code \in {"ROW", "DONE"} THEN @ ELSE errstr(code),
                        !.nrows = IF code = "ROW" THEN @ + 1 ELSE @],
        estmts |-> ee]

rowsNext(var, r, es, rc) ==
    LET code == IF ~r.doStep THEN firstRc(var, r)
                ELSE IF r.pstmt = 0 THEN "ERR" ELSE rc
        ee == IF r.doStep /\ r.pstmt # 0 THEN step(es, r.pstmt, rc) ELSE es
    IN [r |-> [r EXCEPT !.doStep = TRUE,
                        !.ncalls = @ + 1,
                        !.last = IF code = "ROW" THEN "row"
                                 ELSE IF code = "DONE" THEN "eof" ELSE "err",
                        !.err = IF code \in {"ROW", "DONE"} THEN @ ELSE errstr(code),
                        !.nrows = IF code = "ROW" THEN @ + 1 ELSE @],
        estmts |-> ee]

\* the host stops calling Next after io.EOF or an error, and never calls it
\* on a closed cursor
RowsNext(k, rc) ==
    /\ pc = "idle"
    /\ k \in Cursors
    /\ calls[k].r.closes = 0
    /\ calls[k].r.last \notin {"eof", "err"}
    /\ rc \in StepResults("select")
    /\ ~calls[k].r.doStep \/ calls[k].r.pstmt = 0 => rc = "DONE"
    /\ rc = "ROW" => calls[k].r.nrows < MaxRows
    /\ LET n == rowsNext(variant, calls[k].r, estmts, rc)
       IN /\ calls' = [calls EXCEPT ![k].r = n.r]
          /\ estmts' = n.estmts
    /\ UNCHANGED <<variant, pc, stmts, heap, intr, faults,
                 lockVars, poolVars, taskVars, toolVars>>

\* rows.Close: [r, heap, estmts].  The modernc build frees the buffers the
\* cursor was handed; both builds finalize r.pstmt and leave it set.
rowsCloseKeepAllocs(var, r, h, es) ==
    [r |-> [r EXCEPT !.closes = IF @ >= 2 THEN 2 ELSE @ + 1],
     heap |-> IF var = "modernc" THEN freeAll(h, r.allocs) ELSE h,
     estmts |-> finalize(es, r.pstmt)]

rowsClose(var, r, h, es) ==
    [r |-> [r EXCEPT !.allocs = <<>>, !.closes = IF @ >= 2 THEN 2 ELSE @ + 1],
     heap |-> IF var = "modernc" THEN freeAll(h, r.allocs) ELSE h,
     estmts |-> finalize(es, r.pstmt)]

RowsClose(k) ==
    /\ pc = "idle"
    /\ k \in Cursors
    /\ calls[k].r.closes < 2
    /\ LET cl == rowsClose(variant, calls[k].r, heap, estmts)
       IN /\ calls' = [calls EXCEPT ![k].r = cl.r]
          /\ heap' = cl.heap
          /\ estmts' = cl.estmts
    /\ UNCHANGED <<variant, pc, stmts, intr, faults,
                 lockVars, poolVars, taskVars, toolVars>>

(***************************************************************************)
(* The watcher goroutine of a call and the cancellation of its context.    *)
(* watcher: "spawned" (not yet at its select), "blocked" (in the select,   *)
(* no channel ready), "fired" (took the ctx.Done() case), "armed" (found   *)
(* pstmt set, about to call interrupt), "exited".                          *)
(* ctx: "background" (Done() is nil), "live", "cancelled" (while the call  *)
(* ran), "late" (cancelled after the call returned).                       *)
(***************************************************************************)
Cancelled(c) == c.ctx \in {"cancelled", "late"}

\* the watcher reaches its select: with both channels ready Go picks one
WatcherSelect(k, case) ==
    /\ k \in DOMAIN calls
    /\ calls[k].watcher = "spawned"
    /\ case \in {"ctx", "done", "block"}
    /\ case = "ctx" => Cancelled(calls[k])
    /\ case = "done" => calls[k].donech = "closed"
    /\ case = "block" => ~Cancelled(calls[k]) /\ calls[k].donech = "open"
    /\ calls' = [calls EXCEPT ![k].watcher = IF case = "ctx" THEN "fired"
                                             ELSE IF case = "done" THEN "exited"
                                             ELSE "blocked",
                               ![k].took = IF case = "block" THEN @ ELSE case]
    /\ UNCHANGED <<variant, pc, stmts, heap, estmts, intr, faults,
                 lockVars, poolVars, taskVars, toolVars>>

\* a blocked watcher is woken by the first channel that becomes ready
WatcherWake(k) ==
    /\ k \in DOMAIN calls
    /\ calls[k].watcher = "blocked"
    /\ Cancelled(calls[k]) \/ calls[k].donech = "closed"
    /\ calls' = [calls EXCEPT ![k].watcher = IF calls[k].ctx = "cancelled"
                                             THEN "fired" ELSE "exited",
                               ![k].took = IF calls[k].ctx = "cancelled"
                                           THEN "ctx" ELSE "done"]
    /\ UNCHANGED <<variant, pc, stmts, heap, estmts, intr, faults,
                 lockVars, poolVars, taskVars, toolVars>>

\* the ctx.Done() case, its test: `if pstmt != 0`.  The watcher reads the
\* call's local pstmt; "armed" is the watcher about to call interrupt.  The
\* watcher of tx.exec has no such test.
WatcherFire(k) ==
    /\ k \in DOMAIN calls
    /\ calls[k].watcher = "fired"
    /\ calls' = [calls EXCEPT ![k].watcher =
                     IF calls[k].pstmt # 0 \/ calls[k].op = "tx" THEN "armed"
                     ELSE "exited"]
    /\ UNCHANGED <<variant, pc, stmts, heap, estmts, intr, faults,
                 lockVars, poolVars, taskVars, toolVars>>

\* the ctx.Done() case, its body: interrupt(db).  Nothing orders it with the
\* foreground call: `late` says the cancellation came after the call had
\* returned, `after` that the interrupt reaches the engine after it returned.
WatcherInterrupt(k) ==
    /\ k \in DOMAIN calls
    /\ calls[k].watcher = "armed"
    /\ calls' = [calls EXCEPT ![k].watcher = "exited"]
    /\ intr' = intr \cup {[call |-> k, late |-> calls[k].ctx = "late",
                            after |-> calls[k].res # "running"]}
    /\ UNCHANGED <<variant, pc, stmts, heap, estmts, faults,
                 lockVars, poolVars, taskVars, toolVars>>

\* the host cancels the context of call k
Cancel(k) ==
    /\ k \in DOMAIN calls
    /\ calls[k].ctx = "live"
    /\ calls' = [calls EXCEPT ![k].ctx = IF calls[k].res = "running"
                                         THEN "cancelled" ELSE "late"]
    /\ UNCHANGED <<variant, pc, stmts, heap, estmts, intr, faults,
                 lockVars, poolVars, taskVars, toolVars>>

(***************************************************************************)
(* The lock wait.  In the modernc build conn.step and conn.prepareV2 loop: *)
(* when the engine answers BUSY or the shared-cache LOCKED code they call  *)
(* conn.retry, which registers an unlock callback and blocks on a gate     *)
(* (a mutex it entered itself) until the callback leaves it, then calls    *)
(* the engine again.  The cznic build has no such loop.                    *)
(* pc: "lockwait" (inside conn.retry), then "restep" / "reprepare" /       *)
(* "renext" (back in the loop, about to call the engine again).            *)
(* lockw.at: "retry" (gate entered, about to register the callback),       *)
(* "gate" (blocked on the gate), "resumed", "none".  ecalls and gates      *)
(* count the engine calls and the gate waits of the current conn.step or   *)
(* conn.prepareV2; notify is the last answer of sqlite3_unlock_notify.     *)
(***************************************************************************)
\* the loop calls conn.retry after the engine answered rc
enterRetry(op, k, rc, cells) ==
    IF lockw.at = "resumed"
    THEN [lockw EXCEPT !.at = "retry", !.rc = rc, !.ecalls = @ + 1, !.n = @ + 1]
    ELSE [NoLock EXCEPT !.at = "retry", !.op = op, !.k = k, !.rc = rc,
                        !.cells = cells, !.ecalls = 1, !.n = lockw.n + 1]

\* sqlite3_step answers a lock code inside stmt.exec / stmt.query
StepLocked(rc) ==
    /\ pc \in {"bound", "restep"}
    /\ rc \in LockCodes
    /\ IF variant = "modernc"
       THEN /\ lockw.n < MaxWaits
            /\ estmts' = step(estmts, Cur.pstmt, rc)
            /\ lockw' = enterRetry("step", CurNo, rc, <<>>)
            /\ pc' = "lockwait"
            /\ UNCHANGED <<calls, heap, stmts>>
       ELSE \* stmt.step returns the code; the switch takes its default case
            /\ Stepped(rc)
            /\ UNCHANGED lockw
    /\ UNCHANGED <<variant, intr, faults, gate, poolVars, taskVars, toolVars>>

\* the loop of conn.step calls sqlite3_step again, which answers rc
StepAgain(rc) ==
    /\ pc = "restep"
    /\ rc \in StepResults(estmts[Cur.pstmt].kind)
    /\ Stepped(rc)
    /\ lockw' = [lockw EXCEPT !.at = "none", !.ecalls = @ + 1]
    /\ UNCHANGED <<variant, intr, faults, gate, poolVars, taskVars, toolVars>>

\* sqlite3_prepare_v2 answers a lock code
PrepareLocked(rc) ==
    /\ \/ pc = "loop" /\ Cur.pos < CurStmt.nsub
       \/ pc = "reprepare"
    /\ rc \in LockCodes
    /\ IF variant = "modernc"
       THEN /\ lockw.n < MaxWaits
            /\ IF pc = "loop"
               THEN \* the two output cells were allocated before the loop
                    /\ heap' = malloc(malloc(heap, "cell", CurNo), "cell", CurNo)
                    /\ lockw' = enterRetry("prepare", CurNo, rc,
                                           <<Len(heap) + 1, Len(heap) + 2>>)
               ELSE /\ heap' = heap
                    /\ lockw' = enterRetry("prepare", CurNo, rc, lockw.cells)
            /\ pc' = "lockwait"
            /\ UNCHANGED <<calls, estmts, stmts>>
       ELSE \* stmt.prepareV2 returns the code; the caller fails with it
            /\ Finish(Fail(Cur, errstr(rc)), heap, estmts, stmts)
            /\ UNCHANGED lockw
    /\ UNCHANGED <<variant, intr, faults, gate, poolVars, taskVars, toolVars>>

\* the rest of conn.prepareV2 once the engine has answered for a segment of
\* the given kind: [err, heap, estmts, pstmt]; the deferred frees run
prepareAnswer(h, es, call, pos, kind, cells) ==
    LET hOut == freeAll(h, cells)
        out(e, ee, p) == [err |-> e, heap |-> hOut, estmts |-> ee, pstmt |-> p]
    IN IF kind = "bad" THEN out(ErrEngine, es, 0)
       ELSE IF kind = "blank" THEN out(NoErr, es, 0)
       ELSE out(NoErr, Append(es, NewEStmt(call, pos, kind)), Len(es) + 1)

\* the loop of conn.prepareV2 calls sqlite3_prepare_v2 again, which answers
PrepareAgain(kind, names) ==
    /\ pc = "reprepare"
    /\ kind \in SegKinds
    /\ kind \in {"blank", "bad"} => names = <<>>
    /\ Prepared(prepareAnswer(heap, estmts, CurNo, Cur.pos + 1, kind, lockw.cells),
                names)
    /\ lockw' = [lockw EXCEPT !.at = "none", !.ecalls = @ + 1, !.cells = <<>>]
    /\ UNCHANGED <<variant, intr, faults, gate, poolVars, taskVars, toolVars>>

\* sqlite3_step answers a lock code inside rows.Next
NextLocked(k, rc) ==
    /\ \/ /\ pc = "idle"
          /\ k \in Cursors
          /\ calls[k].r.closes = 0
          /\ calls[k].r.last \notin {"eof", "err"}
          /\ calls[k].r.doStep /\ calls[k].r.pstmt # 0
       \/ pc = "renext" /\ k = lockw.k
    /\ rc \in LockCodes
    /\ IF variant = "modernc"
       THEN /\ lockw.n < MaxWaits
            /\ estmts' = step(estmts, calls[k].r.pstmt, rc)
            /\ lockw' = enterRetry("next", k, rc, <<>>)
            /\ pc' = "lockwait"
            /\ UNCHANGED calls
       ELSE \* stmt.step returns the code; the switch takes its default case
            /\ LET n == rowsNext(variant, calls[k].r, estmts, rc)
               IN /\ calls' = [calls EXCEPT ![k].r = n.r]
                  /\ estmts' = n.estmts
            /\ UNCHANGED <<pc, lockw>>
    /\ UNCHANGED <<variant, stmts, heap, intr, faults, gate, poolVars, taskVars, toolVars>>

\* the loop of conn.step, called by rows.Next, steps again; rc is the answer
NextAgain(rc) ==
    /\ pc = "renext"
    /\ rc \in StepResults("select")
    /\ rc = "ROW" => calls[lockw.k].r.nrows < MaxRows
    /\ LET n == rowsNext(variant, calls[lockw.k].r, estmts, rc)
       IN /\ calls' = [calls EXCEPT ![lockw.k].r = n.r]
          /\ estmts' = n.estmts
    /\ pc' = "idle"
    /\ lockw' = [lockw EXCEPT !.at = "none", !.ecalls = @ + 1]
    /\ UNCHANGED <<variant, stmts, heap, intr, faults, gate, poolVars, taskVars, toolVars>>

\* conn.retry fails with the deadlock error: conn.step returns (LOCKED, err),
\* conn.prepareV2 returns (0, err), and their caller returns err
Deadlocked ==
    /\ IF lockw.op = "step"
       THEN LET a == afterStep(variant, Cur, heap, estmts, "LOCKED")
            IN Finish(a.c, a.heap, a.estmts, stmts)
       ELSE IF lockw.op = "prepare"
       THEN Finish(Fail([Cur EXCEPT !.pstmt = 0], errstr("LOCKED")),
                   freeAll(heap, lockw.cells), estmts, stmts)
       ELSE /\ calls' = [calls EXCEPT ![lockw.k].r.ncalls = @ + 1,
                                      ![lockw.k].r.last = "err",
                                      ![lockw.k].r.err = errstr("LOCKED")]
            /\ pc' = "idle"
            /\ UNCHANGED <<heap, estmts, stmts>>

\* conn.retry up to its wait: sqlite3_unlock_notify answers ans
NotifyNoDeadlock(ans) ==
    /\ pc = "lockwait"
    /\ lockw.at = "retry"
    /\ ans \in {"OK", "LOCKED"}
    /\ lockw' = [lockw EXCEPT !.at = "gate", !.notify = ans, !.gates = @ + 1]
    /\ UNCHANGED <<variant, pc, stmts, calls, heap, estmts, intr, faults,
                   gate, poolVars, taskVars, toolVars>>

Notify(ans) ==
    /\ pc = "lockwait"
    /\ lockw.at = "retry"
    /\ ans \in {"OK", "LOCKED"}
    /\ IF ans = "LOCKED"
       THEN /\ Deadlocked
            /\ lockw' = [lockw EXCEPT !.at = "none", !.notify = ans, !.cells = <<>>]
       ELSE \* `enter // Wait`: blocked until unlockNotify leaves the gate
            /\ lockw' = [lockw EXCEPT !.at = "gate", !.notify = ans, !.gates = @ + 1]
            /\ UNCHANGED <<pc, stmts, calls, heap, estmts>>
    /\ UNCHANGED <<variant, intr, faults, gate, poolVars, taskVars, toolVars>>

\* unlockNotify leaves the gate: conn.retry wakes, resets the statement it
\* was given and returns nil; the loop goes round
Unlocked ==
    /\ pc = "lockwait"
    /\ lockw.at = "gate"
    /\ lockw' = [lockw EXCEPT !.at = "resumed"]
    /\ LET p == IF lockw.op = "step" THEN Cur.pstmt
                ELSE IF lockw.op = "next" THEN calls[lockw.k].r.pstmt ELSE 0
       IN estmts' = IF p # 0 THEN [estmts EXCEPT ![p].resets = @ + 1] ELSE estmts
    /\ pc' = IF lockw.op = "step" THEN "restep"
             ELSE IF lockw.op = "prepare" THEN "reprepare" ELSE "renext"
    /\ UNCHANGED <<variant, stmts, calls, heap, intr, faults, gate, poolVars, taskVars, toolVars>>

(***************************************************************************)
(* The vm build (src/sqlite_version_test.go): newConn and conn.close keep  *)
(* the counter sqlite.conns and the shared engine instance vm.  Both run   *)
(* under the mutex of the one registered driver object, so each is one     *)
(* step; the close that a failed newConn defers runs after the mutex was   *)
(* released, as a step of its own.                                         *)
(* pool[i].st: "failed" (newConn failed, its deferred close is pending),   *)
(* "open" (handed to the host), "closed", "panic".                         *)
(***************************************************************************)
\* where newConn can fail
NewConnOutcomes == {"ok", "vm", "thread", "malloc", "open", "ext"}

\* a panic ends the process
Crashed == \E i \in DOMAIN pool : pool[i].st = "panic"

NewConn(out) ==
    /\ ~Crashed
    /\ Len(pool) < MaxConns
    /\ out \in NewConnOutcomes
    /\ out = "vm" => conns = 0            \* virtual.New runs for the first only
    /\ conns' = conns + 1
    /\ vm' = IF conns = 0 /\ out # "vm"
             THEN [vm EXCEPT !.up = TRUE, !.made = @ + 1]
             ELSE IF out # "vm" /\ ~vm.up
             THEN [vm EXCEPT !.nilUse = TRUE]
             ELSE vm
    /\ pool' = Append(pool,
                 IF out = "vm" THEN [st |-> "failed", ppdb |-> FALSE, closes |-> 0, host |-> FALSE]
                 ELSE IF ~vm'.up
                 THEN \* vm.NewThread on the nil machine
                      [st |-> "panic", ppdb |-> FALSE, closes |-> 0, host |-> FALSE]
                 ELSE IF out \in {"thread", "malloc"}
                 THEN [st |-> "failed", ppdb |-> FALSE, closes |-> 0, host |-> FALSE]
                 ELSE IF out \in {"open", "ext"}
                 THEN [st |-> "failed", ppdb |-> TRUE, closes |-> 0, host |-> FALSE]
                 ELSE [st |-> "open", ppdb |-> TRUE, closes |-> 0, host |-> TRUE])
    /\ UNCHANGED <<variant, pc, stmts, calls, heap, estmts, intr, faults,
                   lockVars, taskVars, toolVars>>

\* conn.close of connection i; `fails` says that closeV2 fails
closeAlways(i, fails) ==
    /\ pool' = [pool EXCEPT ![i].st = "closed",
                            ![i].ppdb = IF fails THEN @ ELSE FALSE,
                            ![i].closes = @ + 1]
    /\ conns' = conns - 1
    /\ vm' = [vm EXCEPT !.up = FALSE,
                        !.closed = IF vm.up THEN @ + 1 ELSE @]

close(i, fails) ==
    /\ pool' = [pool EXCEPT ![i].st = "closed",
                            ![i].ppdb = IF fails THEN @ ELSE FALSE,
                            ![i].closes = @ + 1]
    /\ conns' = conns - 1
    /\ vm' = IF conns' = 0
             THEN \* vm.Close(); vm = nil
                  [vm EXCEPT !.up = FALSE, !.closed = IF vm.up THEN @ + 1 ELSE @,
                             !.nilUse = @ \/ ~vm.up]
             ELSE vm

\* conn.Close: the host closes a connection it was handed, once
ConnClose(i, fails) ==
    /\ ~Crashed
    /\ i \in DOMAIN pool
    /\ pool[i].st = "open"
    /\ fails \in BOOLEAN
    /\ close(i, fails)
    /\ UNCHANGED <<variant, pc, stmts, calls, heap, estmts, intr, faults,
                   lockVars, taskVars, toolVars>>

\* the deferred `if err != nil { c.close() }` of a newConn that failed
NewConnFailed(i, fails) ==
    /\ ~Crashed
    /\ i \in DOMAIN pool
    /\ pool[i].st = "failed"
    /\ fails \in BOOLEAN
    /\ fails => pool[i].ppdb
    /\ close(i, fails)
    /\ UNCHANGED <<variant, pc, stmts, calls, heap, estmts, intr, faults,
                   lockVars, taskVars, toolVars>>

\* the same deferred close when vm.Close, called on the nil machine,
\* panics: the counter was decremented before the call
NewConnFailedPanics(i) ==
    /\ ~Crashed
    /\ i \in DOMAIN pool
    /\ pool[i].st = "failed"
    /\ conns = 1
    /\ ~vm.up
    /\ pool' = [pool EXCEPT ![i].st = "panic"]
    /\ conns' = conns - 1
    /\ vm' = [vm EXCEPT !.nilUse = TRUE]
    /\ UNCHANGED <<variant, pc, stmts, calls, heap, estmts, intr, faults,
                   lockVars, taskVars, toolVars>>

\* conn.Close on a connection the host has closed before: conn.close runs
\* again (closeV2 only if the first one failed and left ppdb set)
ConnCloseAgain(i, fails) ==
    /\ ~Crashed
    /\ i \in DOMAIN pool
    /\ pool[i].st = "closed"
    /\ pool[i].host
    /\ pool[i].closes < MaxCloses
    /\ fails \in BOOLEAN
    /\ fails => pool[i].ppdb
    /\ close(i, fails)
    /\ UNCHANGED <<variant, pc, stmts, calls, heap, estmts, intr, faults,
                   lockVars, taskVars, toolVars>>

(***************************************************************************)
(* Concurrent inserts (TestConcurrentInserts, TestConcurrentGoroutines):   *)
(* goroutines take values from a channel and insert each through one       *)
(* statement prepared in one transaction; the main goroutine commits after *)
(* they have all finished.  database/sql holds the connection's mutex      *)
(* around every driver call ("the returned connection is only used by one  *)
(* goroutine at a time"), so a task runs stmt.exec with mu held.           *)
(* tasks[t].pc: "take", "exec" (about to call prep.Exec), "in" (inside     *)
(* it, holding the connection), "done", "failed".  A row of the table is   *)
(* [v, by]: the value the engine stored and the task whose Exec stored it. *)
(***************************************************************************)
\* the argument list database/sql passes for prep.Exec(n)
InsertArgs(n) == <<[Name |-> "", Ordinal |-> 1, Value |-> [type |-> "int64", v |-> n]]>>

\* stmt.exec on "insert into t values(?)" with the one argument n:
\* [heap, estmts, stmts, err, rows].  `refused` says that the engine rejects
\* the prepare; rows are the values the step stored.
execInsert(var, h, es, ss, sid, n, refused) ==
    LET pr == prepareV2(var, h, es, 0, 1, IF refused THEN "bad" ELSE "dml", 0)
        st == bind(var, 0, <<Anon>>, InsertArgs(n), NoFault, pr.heap,
                   IF var = "cznic" THEN ss[sid].allocs ELSE <<>>)
        stepped == finalize(step(pr.estmts, pr.pstmt, "DONE"), pr.pstmt)
    IN IF pr.err # NoErr
       THEN [heap |-> pr.heap, estmts |-> pr.estmts, stmts |-> ss,
             err |-> pr.err, rows |-> <<>>]
       ELSE IF st.err # NoErr
       THEN [heap |-> st.heap,
             estmts |-> IF var = "modernc" THEN finalize(pr.estmts, pr.pstmt)
                        ELSE pr.estmts,
             stmts |-> ss, err |-> st.err, rows |-> <<>>]
       ELSE [heap |-> st.heap, estmts |-> stepped,
             stmts |-> IF var = "cznic" THEN [ss EXCEPT ![sid].allocs = st.allocs]
                       ELSE ss,
             err |-> NoErr, rows |-> <<st.bound[1].v>>]

NoTask == [pc |-> "take", i |-> 0, n |-> 0, j |-> 0, took |-> {}]

\* the test up to `close(start)`: the connection of the transaction holds
\* the prepared insert statement, the table is empty
InitInsert ==
    \E v \in Variants :
        LET s == newStmt(v, <<>>, 1, 0, FALSE, 0)
        IN /\ variant = v
           /\ pc = "idle"
           /\ stmts = <<s.s>>
           /\ calls = <<>>
           /\ heap = s.heap
           /\ estmts = <<>>
           /\ intr = {}
           /\ faults = 0
           /\ lockw = NoLock
           /\ gate = NoGate
           /\ conns = 0 /\ vm = NoVM /\ pool = <<>>
           /\ tasks = [t \in 1..NTasks |-> NoTask]
           /\ table = <<>>
           /\ rnd = 0..(NTasks * NRows - 1)
           /\ mu = 0
           /\ ToolsIdle

\* `n := <-rnd`: the generator sends every value once, in its own order
TaskTake(t, n) ==
    /\ t \in DOMAIN tasks
    /\ tasks[t].pc = "take"
    /\ n \in rnd
    /\ rnd' = rnd \ {n}
    /\ tasks' = [tasks EXCEPT ![t].pc = "exec", ![t].n = n, ![t].j = 0,
                              ![t].took = @ \cup {n}]
    /\ UNCHANGED <<variant, pc, stmts, calls, heap, estmts, intr, faults,
                   lockVars, poolVars, toolVars, table, mu>>

\* prep.Exec(n): database/sql takes the connection
TaskCall(t) ==
    /\ t \in DOMAIN tasks
    /\ tasks[t].pc = "exec"
    /\ mu = 0
    /\ mu' = t
    /\ tasks' = [tasks EXCEPT ![t].pc = "in"]
    /\ UNCHANGED <<variant, pc, stmts, calls, heap, estmts, intr, faults,
                   lockVars, poolVars, toolVars, table, rnd>>

\* the task's loop after Exec returned err
afterExec(task, err) ==
    IF err = NoErr
    THEN [task EXCEPT !.i = @ + 1,
                      !.pc = IF task.i + 1 = NRows THEN "done" ELSE "take"]
    ELSE [task EXCEPT !.j = @ + 1,
                      !.pc = IF task.j + 1 = MaxTries THEN "failed" ELSE "exec"]

\* stmt.exec runs and returns; database/sql releases the connection
TaskExecKeepsRow(t, refused) ==
    /\ t \in DOMAIN tasks
    /\ tasks[t].pc = "in"
    /\ mu = t
    /\ Injected(refused)
    /\ LET x == execInsert(variant, heap, estmts, stmts, 1, tasks[t].n, refused)
       IN /\ heap' = x.heap
          /\ estmts' = x.estmts
          /\ stmts' = x.stmts
          /\ table' = Append(table, [v |-> tasks[t].n, by |-> t])
          /\ tasks' = [tasks EXCEPT ![t] = afterExec(@, x.err)]
    /\ mu' = 0
    /\ UNCHANGED <<variant, pc, calls, intr, lockVars, poolVars, toolVars, rnd>>

TaskExec(t, refused) ==
    /\ t \in DOMAIN tasks
    /\ tasks[t].pc = "in"
    /\ mu = t
    /\ Injected(refused)
    /\ LET x == execInsert(variant, heap, estmts, stmts, 1, tasks[t].n, refused)
       IN /\ heap' = x.heap
          /\ estmts' = x.estmts
          /\ stmts' = x.stmts
          /\ table' = table \o [k \in DOMAIN x.rows |-> [v |-> x.rows[k], by |-> t]]
          /\ tasks' = [tasks EXCEPT ![t] = afterExec(@, x.err)]
    /\ mu' = 0
    /\ UNCHANGED <<variant, pc, calls, intr, lockVars, poolVars, toolVars, rnd>>

\* wg.Wait() returns and the main goroutine commits
Commit ==
    /\ pc = "idle"
    /\ \A t \in DOMAIN tasks : tasks[t].pc \in {"done", "failed"}
    /\ pc' = "committed"
    /\ UNCHANGED <<variant, stmts, calls, heap, estmts, intr, faults,
                   lockVars, poolVars, taskVars, toolVars>>

(***************************************************************************)
(* Specifications.                                                         *)
(***************************************************************************)
Ops == {"exec", "query"}

\* one step of the foreground caller, with the inputs drawn from the given
\* argument lists, placeholder lists and contexts
Step(argSet, nameSet, ctxSet) ==
    \/ \E nsub \in 0..MaxSub, failAt \in 0..3 : Prepare(nsub, failAt)
    \/ \E op \in Ops, sid \in DOMAIN stmts, args \in argSet, ctx \in ctxSet :
          StmtCall(op, sid, args, ctx)
    \/ \E op \in Ops, nsub \in 0..MaxSub, args \in argSet, ctx \in ctxSet,
          failAt \in 0..3 : ConnCall(op, nsub, args, ctx, failAt)
    \/ \E kind \in SegKinds, names \in nameSet, failAt \in 0..2 :
          SubPrepare(kind, names, failAt)
    \/ \E fault \in Faults(MaxBindParams) : SubBind(fault)
    \/ \E rc \in {"ROW", "DONE", "ERR"} : SubStep(rc)
    \/ LoopEnd
    \/ \E sid \in DOMAIN stmts : StmtClose(sid)
    \/ \E k \in DOMAIN calls, rc \in {"ROW", "DONE", "ERR"} : RowsNext(k, rc)
    \/ \E k \in DOMAIN calls : RowsClose(k)

\* Spec: the life cycle of statements, cursors and boundary allocations.
\* Arguments are strings (their bind allocates a buffer); contexts are
\* context.Background(), as Exec/Query without a context pass it.
LifeArgs == ArgLists({}, {"string"}, MaxArgs)
LifeNames == ParamLists({}, MaxParams)

Next == Step(LifeArgs, LifeNames, {"background"})

Spec == Init /\ [][Next]_vars

\* SpecBind: one call, with every shape of placeholder and argument list
BindArgs == ArgLists(ArgNames, {"int64"}, MaxBindArgs)
BindNames == ParamLists(ArgNames, MaxBindParams)

NextBind ==
    \/ \E op \in Ops, args \in BindArgs :
          calls = <<>> /\ ConnCall(op, 1, args, "background", 0)
    \/ \E names \in BindNames : SubPrepare("select", names, 0)
    \/ SubBind(NoFault)
    \/ \E rc \in {"ROW", "DONE"} : SubStep(rc)
    \/ LoopEnd

SpecBind == Init /\ [][NextBind]_vars

\* SpecTypes: one call, with an argument of every dynamic type
TypeArgs == ArgLists({}, BindableTypes \cup OtherTypes, MaxArgs)
TypeNames == ParamLists({}, MaxParams)

NextTypes ==
    \/ \E op \in Ops, args \in TypeArgs :
          calls = <<>> /\ ConnCall(op, 1, args, "background", 0)
    \/ \E names \in TypeNames : SubPrepare("select", names, 0)
    \/ SubBind(NoFault)
    \/ \E rc \in {"ROW", "DONE"} : SubStep(rc)
    \/ LoopEnd

SpecTypes == Init /\ [][NextTypes]_vars

\* SpecCancel: calls under a cancellable context, with their watchers
NextCancel ==
    \/ Step({<<>>}, {<<>>}, {"live"})
    \/ \E k \in DOMAIN calls, case \in {"ctx", "done", "block"} : WatcherSelect(k, case)
    \/ \E k \in DOMAIN calls : WatcherWake(k)
    \/ \E k \in DOMAIN calls : WatcherFire(k)
    \/ \E k \in DOMAIN calls : WatcherInterrupt(k)
    \/ \E k \in DOMAIN calls : Cancel(k)

SpecCancel == Init /\ [][NextCancel]_vars

\* SpecLock: calls whose engine steps and prepares can meet a lock
NextLock ==
    \/ Step({<<>>}, {<<>>}, {"background"})
    \/ \E rc \in LockCodes : StepLocked(rc)
    \/ \E rc \in {"ROW", "DONE", "ERR"} : StepAgain(rc)
    \/ \E rc \in LockCodes : PrepareLocked(rc)
    \/ \E kind \in SegKinds : PrepareAgain(kind, <<>>)
    \/ \E k \in DOMAIN calls, rc \in LockCodes : NextLocked(k, rc)
    \/ \E rc \in {"ROW", "DONE", "ERR"} : NextAgain(rc)
    \/ \E ans \in {"OK", "LOCKED"} : Notify(ans)
    \/ Unlocked

SpecLock == Init /\ [][NextLock]_vars

\* SpecPool: opens and closes of connections in the vm build
InitPool == Opened("vm") /\ ToolsIdle

NextPool ==
    \/ \E out \in NewConnOutcomes : NewConn(out)
    \/ \E i \in DOMAIN pool, fails \in BOOLEAN : ConnClose(i, fails)
    \/ \E i \in DOMAIN pool, fails \in BOOLEAN : NewConnFailed(i, fails)
    \/ \E i \in DOMAIN pool : NewConnFailedPanics(i)

SpecPool == InitPool /\ [][NextPool]_vars

\* SpecReclose: the same, with a host that calls Close on a connection again
NextReclose ==
    \/ \E out \in NewConnOutcomes : NewConn(out)
    \/ \E i \in DOMAIN pool, fails \in BOOLEAN : ConnClose(i, fails)
    \/ \E i \in DOMAIN pool, fails \in BOOLEAN : NewConnFailed(i, fails)
    \/ \E i \in DOMAIN pool : NewConnFailedPanics(i)
    \/ \E i \in DOMAIN pool, fails \in BOOLEAN : ConnCloseAgain(i, fails)

SpecReclose == InitPool /\ [][NextReclose]_vars

\* SpecInsert: the concurrent-insert scenario
NextInsert ==
    \/ \E t \in DOMAIN tasks, n \in rnd : TaskTake(t, n)
    \/ \E t \in DOMAIN tasks : TaskCall(t)
    \/ \E t \in DOMAIN tasks, refused \in BOOLEAN : TaskExec(t, refused)
    \/ Commit

SpecInsert == InitInsert /\ [][NextInsert]_vars

(***************************************************************************)
(* Properties.                                                             *)
(***************************************************************************)
\* the caller arguments the contract matches to the placeholder at index i:
\* by name for `:x`, `@x`, `$x`; by ordinal for `?` and for `?N` (whose
\* index is N)
Matching(name, i, args) ==
    {k \in DOMAIN args : IF name.prefix \in Prefixes THEN args[k].Name = name.body
                         ELSE args[k].Ordinal = i}

\* the call has a placeholder in its current sub-statement that no argument matches
Unmatched(c) == \E i \in DOMAIN c.names : Matching(c.names[i], i, c.args) = {}

\* the engine statement prepared last
LastEStmt == estmts[Len(estmts)]

Returned(c) == c.res # "running"

\* the engine statements prepared and the buffers bound by call k
StmtsOf(k) == {e \in DOMAIN estmts : estmts[e].call = k}
BufsOf(k) == {p \in DOMAIN heap : heap[p].call = k /\ heap[p].kind = "buf"}

\* every engine statement of call k is finalized, every buffer it bound is freed
Released(k) ==
    /\ \A e \in StmtsOf(k) : estmts[e].fin >= 1
    /\ \A p \in BufsOf(k) : heap[p].frees >= 1

\* C1: once bind has run on a sub-statement one of whose placeholders has no
\* matching caller argument, the call has failed with a binding error and
\* the sub-statement has not been stepped.
C1_UnmatchedPlaceholderFails ==
    \A k \in DOMAIN calls :
        (pc # "prepared" /\ Unmatched(calls[k])) =>
            /\ calls[k].res = "err"
            /\ calls[k].err \in BindingErrors
            /\ LastEStmt.steps = 0

\* C2: when bind has succeeded, every `?N` placeholder holds the value of the
\* caller's N-th positional argument.
C2_NumberedBindsNth ==
    pc = "bound" =>
        \A i \in DOMAIN Cur.names :
            (Cur.names[i].prefix = "?" /\ i \in DOMAIN Cur.args /\ Cur.args[i].Name = "")
                => Cur.bound[i] = Cur.args[i].Value

\* C3: when bind has succeeded, every `:x`, `@x`, `$x` placeholder holds the
\* value of the caller's argument named x, wherever that argument stands in
\* the argument list and however many placeholders carry the name.
C3_NamedBindsByName ==
    pc = "bound" =>
        \A i \in DOMAIN Cur.names : \A k \in DOMAIN Cur.args :
            (Cur.names[i].prefix \in Prefixes /\ Cur.args[k].Name = Cur.names[i].body)
                => Cur.bound[i] = Cur.args[k].Value

\* `:one, @one, $one` bound with a positional argument followed by one=2:
\* all three placeholders hold the second argument's value
C3_Witness ==
    /\ pc = "bound"
    /\ Cur.names = <<Named(":", "one"), Named("@", "one"), Named("$", "one")>>
    /\ Len(Cur.args) = 2
    /\ Cur.args[1].Name = ""
    /\ Cur.args[2].Name = "one"
    /\ \A i \in 1..3 : Cur.bound[i] = Cur.args[2].Value

\* C4: a Query call in which more than one sub-statement produced a row has
\* returned the error "query contains multiple select statements" and no
\* cursor.
C4_MultipleSelectsRejected ==
    \A k \in DOMAIN calls :
        (calls[k].op = "query" /\ Returned(calls[k]) /\ calls[k].nrow > 1) =>
            /\ calls[k].res = "err"
            /\ calls[k].err = ErrMultiple
            /\ ~calls[k].r.live

\* C5: a Query call that ran every sub-statement of a text with at least one
\* statement in it, none of which produced a row, has returned a cursor with
\* zero columns whose first Next reports end-of-stream.
C5_NoRowsGivesDoneCursor ==
    \A k \in DOMAIN calls :
        (/\ calls[k].op = "query"
         /\ calls[k].res \in {"ok", "panic"}
         /\ calls[k].nrow = 0
         /\ StmtsOf(k) # {}) =>
            /\ calls[k].res = "ok"
            /\ calls[k].r.live
            /\ calls[k].r.ncols = 0
            /\ calls[k].r.doStep => calls[k].r.last = "eof"

\* C6: no boundary allocation is freed more than once.
C6_NoDoubleFree == \A p \in DOMAIN heap : heap[p].frees <= 1

\* a cursor that was handed a bound buffer has been closed twice, and its
\* statement has been closed as well
C6_Witness ==
    \E k \in Cursors :
        /\ calls[k].r.closes = 2
        /\ stmts[calls[k].sid].psql = 0
        /\ \E p \in BufsOf(k) : heap[p].frees = 1
        /\ \A p \in DOMAIN heap : heap[p].frees = 1

\* C7: once the cursor of a successful Query is closed, every engine
\* statement the call prepared is finalized and every buffer it bound is freed.
C7_ClosedCursorReleasesAll ==
    \A k \in Cursors : calls[k].r.closes >= 1 => Released(k)

\* C8: when Query has returned an error, every engine statement it prepared
\* is finalized and every buffer it bound is freed.
C8_FailedQueryReleasesAll ==
    \A k \in DOMAIN calls :
        (calls[k].op = "query" /\ calls[k].res = "err") => Released(k)

\* C9: no engine interrupt is issued because of a cancellation that came
\* after the call had returned.
C9_LateCancelIsNoOp == \A i \in intr : ~i.late

\* C10: when a call that started a watcher has returned, with a result or
\* with an error, its watcher has terminated.
C10_WatcherGoneAtReturn ==
    \A k \in DOMAIN calls :
        (calls[k].res \in {"ok", "err"} /\ calls[k].watcher # "none")
            => calls[k].watcher = "exited"

\* C11: in the build of stmt.exec at lines 325-343, no engine interrupt
\* requested for a call reaches the engine after that call has returned.
C11_InterruptOnlyDuringCall ==
    variant = "modernc" => \A i \in intr : ~i.after

\* C12: when a call that prepared a sub-statement has returned, its context
\* was cancelled while it ran and its watcher took the cancellation, the
\* watcher has issued an engine interrupt before the call returned.
C12_CancelBeforeFinishInterrupts ==
    \A k \in DOMAIN calls :
        (/\ calls[k].res \in {"ok", "err"}
         /\ StmtsOf(k) # {}
         /\ calls[k].ctx = "cancelled"
         /\ calls[k].took = "ctx"
         /\ calls[k].watcher = "exited")
            => \E i \in intr : i.call = k /\ ~i.after


\* C15: when the step of a sub-statement of an Exec call answered neither
\* DONE nor ROW, the call has returned the error built from that result, and
\* that sub-statement is the last one the call consumed from its text and the
\* last one it prepared.
C15_ExecStopsAtFirstFailure ==
    \A k \in DOMAIN calls : \A e \in StmtsOf(k) :
        (calls[k].op = "exec" /\ estmts[e].last = "ERR")
            => /\ calls[k].res = "err"
               /\ calls[k].err = ErrEngine
               /\ calls[k].pos = estmts[e].pos
               /\ \A f \in StmtsOf(k) : f <= e

\* an Exec call over two sub-statements failed at the step of the first
C15_Witness ==
    \E k \in DOMAIN calls : \E e \in StmtsOf(k) :
        /\ calls[k].op = "exec"
        /\ stmts[calls[k].sid].nsub = 2
        /\ estmts[e].last = "ERR"
        /\ estmts[e].pos = 1
        /\ calls[k].res = "err"

\* C16: an engine statement of an Exec call that has been stepped and is
\* finalized was stepped until it answered DONE or an error.
C16_ExecStepsToCompletion ==
    \A e \in DOMAIN estmts :
        (/\ calls[estmts[e].call].op = "exec"
         /\ estmts[e].steps >= 1
         /\ estmts[e].fin >= 1)
            => estmts[e].last \in {"DONE", "ERR"}

\* C17: for a cursor over a statement that yields rows, the first Next does
\* not step the engine and every later one steps it once; every row the
\* engine has produced has been delivered by exactly one Next; and Next
\* reports end of data exactly when the engine answered DONE.
C17_NextDeliversEachRowOnce ==
    \A k \in Cursors :
        LET r == calls[k].r
        IN r.pstmt # 0 =>
              /\ estmts[r.pstmt].steps = (IF r.ncalls = 0 THEN 1 ELSE r.ncalls)
              /\ r.nrows = (IF r.ncalls = 0 THEN 0 ELSE estmts[r.pstmt].rows)
              /\ (r.last = "eof") = (estmts[r.pstmt].last = "DONE")
              /\ r.last = "row" => r.nrows = r.ncalls
              /\ r.last = "eof" => r.nrows = r.ncalls - 1

\* a statement that yielded MaxRows rows: Next was called MaxRows + 1 times
\* and the last call reported end of data
C17_Witness ==
    \E k \in Cursors :
        /\ calls[k].r.pstmt # 0
        /\ calls[k].r.ncalls = MaxRows + 1
        /\ calls[k].r.nrows = MaxRows
        /\ calls[k].r.last = "eof"


\* C13: when the last registration of the unlock callback answered LOCKED,
\* the lock wait is over and the operation that waited has failed with the
\* deadlock error; the wait did not block on the gate for that answer and
\* the engine call was not made again (one engine call, then one more after
\* each gate wait).
C13_DeadlockFailsAtOnce ==
    lockw.notify = "LOCKED" =>
        /\ lockw.at = "none"
        /\ pc \notin {"lockwait", "restep", "reprepare", "renext"}
        /\ lockw.ecalls = lockw.gates + 1
        /\ IF lockw.op = "next"
           THEN calls[lockw.k].r.last = "err" /\ calls[lockw.k].r.err = ErrDeadlock
           ELSE calls[lockw.k].res = "err" /\ calls[lockw.k].err = ErrDeadlock

\* a deadlock reported on the second lock wait of one engine call
C13_Witness ==
    /\ lockw.notify = "LOCKED"
    /\ lockw.gates = 1
    /\ lockw.ecalls = 2

\* C14: no Exec or Query call has failed with the error of a BUSY or
\* shared-cache LOCKED result, and no Next has reported one.
C14_LockResultNotSurfaced ==
    \A k \in DOMAIN calls :
        /\ calls[k].err \notin {ErrBusy, ErrLockedSharedCache}
        /\ calls[k].r.err \notin {ErrBusy, ErrLockedSharedCache}


\* the connections the host holds open
OpenConns == {i \in DOMAIN pool : pool[i].st = "open"}

NoFailedPending == \A i \in DOMAIN pool : pool[i].st # "failed"

\* C33: the counter sqlite.conns is never negative, and whenever no failed
\* newConn still has its deferred close pending it equals the number of
\* connections that were handed to the host and not closed since; this also
\* after a second Close on one connection and after a failed Open.
C33_CounterCountsOpenConns ==
    ~Crashed =>
        /\ conns >= 0
        /\ NoFailedPending => conns = Cardinality(OpenConns)

\* C34: the nil engine instance is never used, and once the first Open has
\* failed at the creation of the engine and has returned, the counter is
\* zero and no instance is up, so that the next Open creates one.
C34_FailedCreationLeavesNoTrace ==
    /\ ~vm.nilUse
    /\ (~Crashed /\ pool # <<>> /\ \A i \in DOMAIN pool : pool[i].st = "closed" /\ ~pool[i].host)
           => conns = 0 /\ ~vm.up


\* C19: once the transaction is committed after every task inserted all its
\* values, the table holds NTasks * NRows rows, their values are exactly
\* 0 .. NTasks * NRows - 1 (so none is missing and none is there twice), and
\* every row holds a value that the task whose Exec stored it had taken.
C19_ConcurrentInsertsAllApplied ==
    (pc = "committed" /\ \A t \in DOMAIN tasks : tasks[t].pc = "done") =>
        /\ Len(table) = NTasks * NRows
        /\ {table[k].v : k \in DOMAIN table} = 0..(NTasks * NRows - 1)
        /\ \A k \in DOMAIN table : table[k].v \in tasks[table[k].by].took

\* committed after the tasks' inserts interleaved and one Exec was retried
C19_Witness ==
    /\ pc = "committed"
    /\ \A t \in DOMAIN tasks : tasks[t].pc = "done"
    /\ faults = 1
    /\ \E k \in 1..(Len(table) - 2) :
          table[k].by # table[k + 1].by /\ table[k + 1].by # table[k + 2].by


C21_NullBindsAsNull ==
    \A k \in DOMAIN calls :
        \A i \in DOMAIN calls[k].names :
            LET v == rangeArgs(calls[k].names[i], i, calls[k].args)
            IN (pc # "prepared" /\ v.Ordinal # 0 /\ v.Value.type = "nil")
                  => /\ calls[k].err \notin BindingErrors
                     /\ calls[k].bound[i] = v.Value

\* C28: when an Exec call has returned, by any path, every engine
\* sub-statement it prepared has been finalized exactly once.
C28_ExecFinalizesEachOnce ==
    \A k \in DOMAIN calls :
        (calls[k].op = "exec" /\ Returned(calls[k]))
            => \A e \in StmtsOf(k) : estmts[e].fin = 1

\* C29: when an Exec call on a prepared statement has returned, every buffer
\* it bound for its arguments has been freed.
C29_ExecFreesItsBuffers ==
    \A k \in DOMAIN calls :
        (calls[k].op = "exec" /\ calls[k].via = "stmt" /\ Returned(calls[k]))
            => \A p \in BufsOf(k) : heap[p].frees >= 1

\* C30: while a cursor is open and its engine statement is not finalized, no
\* buffer bound to that statement has been freed (stated for calls that
\* prepared that one statement, so that every buffer of the call is bound
\* to it).
C30_BuffersOutliveCursor ==
    \A k \in Cursors :
        LET r == calls[k].r
        IN (/\ r.closes = 0
            /\ r.pstmt # 0
            /\ StmtsOf(k) = {r.pstmt}
            /\ estmts[r.pstmt].fin = 0)
               => \A p \in BufsOf(k) : heap[p].frees = 0

(***************************************************************************)
(* The text of bind's missing-argument errors.  A message is the sequence  *)
(* of its words (the words of a Go string are separated by one space), so  *)
(* that "contains" is decided on the formatted text.                       *)
(***************************************************************************)
FmtMissingNamed == <<"missing", "named", "argument", "%q">>
FmtMissingIndex == <<"missing", "argument", "with", "%d", "index">>

\* fmt.Sprintf with one operand: the verb is replaced by the operand's text
Sprintf(format, operand) ==
    [k \in DOMAIN format |->
        IF format[k] = "%q" THEN "\"" \o operand \o "\""
        ELSE IF format[k] = "%d" THEN operand
        ELSE format[k]]

\* strings.Contains on texts made of whole words
Contains(text, sub) ==
    \E at \in 0..(Len(text) - Len(sub)) :
        SubSeq(text, at + 1, at + Len(sub)) = sub

\* the error bind returns for placeholder i with no argument:
\* fmt.Errorf("missing named argument %q", name[1:]) when the placeholder
\* has a name, fmt.Errorf("missing argument with %d index", i) otherwise
missingArgument(name, i) ==
    IF name.prefix # "" THEN Sprintf(FmtMissingNamed, name.body)
    ELSE Sprintf(FmtMissingIndex, Digits[i])

\* the placeholder bind stopped at in a call that failed in bind
FailedAt(call) == Min({i \in DOMAIN call.bound : call.bound[i] = Unbound})

\* the text of the missing-argument error of a call that failed with one
ErrorText(call) == missingArgument(call.names[FailedAt(call)], FailedAt(call))

\* C23: a call that failed for a missing positional argument has an error
\* text containing "missing argument with index", and a call that failed for
\* a missing named argument has one containing "missing named argument".
C23_MissingArgumentTexts ==
    \A k \in DOMAIN calls :
        /\ calls[k].err = ErrMissingIndex
              => Contains(ErrorText(calls[k]),
                          <<"missing", "argument", "with", "index">>)
        /\ calls[k].err = ErrMissingNamed
              => Contains(ErrorText(calls[k]),
                          <<"missing", "named", "argument">>)

(***************************************************************************)
(* conn.errstr: the text of the error built from an engine result code.    *)
(* str is what sqlite3_errstr(rc) answers, msg what sqlite3_errmsg(db)     *)
(* answers; both are inputs here.                                          *)
(***************************************************************************)
\* result codes the engine hands back, primary and extended
ResultCodes == {1, 5, 6, 19, 21, 262, 2067}
\* sqlite3_errstr texts
CodeStrings == {"SQL logic error", "database is locked",
                "database table is locked", "constraint failed"}
\* sqlite3_errmsg texts: the code string again, or a detailed message
Messages == CodeStrings \cup {"no such table: t", "near \"x\": syntax error",
                              "UNIQUE constraint failed: t.a", "not an error"}

DecimalDigits == <<"0", "1", "2", "3", "4", "5", "6", "7", "8", "9">>

\* the verb %v on an int32: its decimal numeral
RECURSIVE Itoa(_)
Itoa(n) ==
    IF n < 0 THEN "-" \o Itoa(0 - n)
    ELSE IF n < 10 THEN DecimalDigits[n + 1]
    ELSE Itoa(n \div 10) \o DecimalDigits[(n % 10) + 1]

\* the error errstr returns: *Error{msg, code} in the modernc build, a
\* plain fmt.Errorf error in the cznic build
errstrErrorLong(var, str, msg, rc) ==
    LET text == str \o ": " \o msg \o " (" \o Itoa(rc) \o ")"
    IN IF var = "modernc" THEN [msg |-> text, code |-> rc] ELSE [msg |-> text]

errstrError(var, str, msg, rc) ==
    LET text == IF msg = str THEN str \o " (" \o Itoa(rc) \o ")"
                ELSE str \o ": " \o msg \o " (" \o Itoa(rc) \o ")"
    IN IF var = "modernc" THEN [msg |-> text, code |-> rc] ELSE [msg |-> text]

\* one engine answer about to be turned into an error
InitErrstr ==
    /\ \E v \in Variants : Opened(v)
    /\ \E str \in CodeStrings, msg \in Messages, rc \in ResultCodes :
          eval = [fn |-> "errstr", str |-> str, msg |-> msg, rc |-> rc,
                  done |-> FALSE]
    /\ cp = NoCopy
    /\ gen = NoGen
    /\ driver = NoDriver

Errstr ==
    /\ eval.fn = "errstr"
    /\ ~eval.done
    /\ eval' = [fn |-> "errstr", str |-> eval.str, msg |-> eval.msg,
                rc |-> eval.rc, done |-> TRUE,
                err |-> errstrError(variant, eval.str, eval.msg, eval.rc)]
    /\ UNCHANGED <<variant, pc, stmts, calls, heap, estmts, intr, faults,
                   lockVars, poolVars, taskVars, cp, gen, driver>>

NextErrstr == Errstr

SpecErrstr == InitErrstr /\ [][NextErrstr]_vars

\* the numerals of the result codes, written out
Numeral(rc) ==
    CASE rc = 1 -> "1" [] rc = 5 -> "5" [] rc = 6 -> "6" [] rc = 19 -> "19"
      [] rc = 21 -> "21" [] rc = 262 -> "262" [] rc = 2067 -> "2067"
      [] OTHER -> "?"

MaxSF == 1            \* scale factors 1..MaxSF
MaxPartKey == 2501    \* part keys 1..MaxPartKey (of the SF * 200,000)
MaxOrders == 40       \* zero-based order keys 0..MaxOrders-1 (of SF * 1,500,000)
MaxLines == 7         \* n := int(rng.randomValue(1, 7)) line items per order

\* s := int64(sf) * 10000
suppliers(sf) == sf * 10000

\* the supplier key handed to stmt2.Exec / stmt3.Exec
suppKey(s, partKey, i) ==
    (partKey + (i * ((s \div 4) + ((partKey - 1) \div s)))) % (s + 1)

\* oOrderKey = oOrderKey/8*32 + oOrderKey%8 + 1
orderKeyDense(k) == ((k \div 8) * 8) + (k % 8) + 1

orderKey(k) == ((k \div 8) * 32) + (k % 8) + 1

\* one key computation about to be made: the i-th partsupp row of a part,
\* the i-th line item of an order, or the keys of two orders
InitKeys ==
    /\ Opened("modernc")
    /\ \/ \E sf \in 1..MaxSF, partKey \in 1..MaxPartKey, i \in 0..3 :
             eval = [fn |-> "partsupp", sf |-> sf, partKey |-> partKey,
                     i |-> i, done |-> FALSE]
       \/ \E sf \in 1..MaxSF, partKey \in 1..MaxPartKey, i \in 0..(MaxLines - 1) :
             eval = [fn |-> "lineitem", sf |-> sf, partKey |-> partKey,
                     i |-> i, done |-> FALSE]
       \/ \E k1 \in 0..(MaxOrders - 1), k2 \in 0..(MaxOrders - 1) :
             eval = [fn |-> "orders", k1 |-> k1, k2 |-> k2, done |-> FALSE]
    /\ cp = NoCopy
    /\ gen = NoGen
    /\ driver = NoDriver

\* genPartAndPartSupp: the PS_SUPPKEY of one partsupp row
PartSuppKey ==
    /\ eval.fn = "partsupp"
    /\ ~eval.done
    /\ eval' = [fn |-> "partsupp", sf |-> eval.sf, partKey |-> eval.partKey,
                i |-> eval.i, done |-> TRUE,
                key |-> suppKey(suppliers(eval.sf), eval.partKey, eval.i)]
    /\ UNCHANGED <<variant, pc, stmts, calls, heap, estmts, intr, faults,
                   lockVars, poolVars, taskVars, cp, gen, driver>>

\* genCustomerAndOrders: the L_SUPPKEY of one line item
LineItemKey ==
    /\ eval.fn = "lineitem"
    /\ ~eval.done
    /\ eval' = [fn |-> "lineitem", sf |-> eval.sf, partKey |-> eval.partKey,
                i |-> eval.i, done |-> TRUE,
                key |-> suppKey(suppliers(eval.sf), eval.partKey, eval.i)]
    /\ UNCHANGED <<variant, pc, stmts, calls, heap, estmts, intr, faults,
                   lockVars, poolVars, taskVars, cp, gen, driver>>

\* genCustomerAndOrders: the O_ORDERKEY of two orders
OrderKeys ==
    /\ eval.fn = "orders"
    /\ ~eval.done
    /\ eval' = [fn |-> "orders", k1 |-> eval.k1, k2 |-> eval.k2, done |-> TRUE,
                key1 |-> orderKey(eval.k1), key2 |-> orderKey(eval.k2)]
    /\ UNCHANGED <<variant, pc, stmts, calls, heap, estmts, intr, faults,
                   lockVars, poolVars, taskVars, cp, gen, driver>>

NextKeys == PartSuppKey \/ LineItemKey \/ OrderKeys

SpecKeys == InitKeys /\ [][NextKeys]_vars

\* C24: every supplier key computed for a partsupp or lineitem row equals
\* (partkey + i*((S/4) + (partkey-1)/S)) mod S + 1 with S = SF*10,000, and
\* lies in 1..S.
C24_SupplierKey ==
    (eval.fn \in {"partsupp", "lineitem"} /\ eval.done) =>
        LET S == eval.sf * 10000
            pk == eval.partKey
        IN /\ eval.key = ((pk + (eval.i * ((S \div 4) + ((pk - 1) \div S)))) % S) + 1
           /\ eval.key \in 1..S

\* C25: distinct zero-based keys give distinct order keys, every order key
\* lies in the first 8 positions of its block of 32, and the 8 zero-based
\* keys of one group fill exactly those 8 of the block's 32 positions (25%).
C25_OrderKeysSparse ==
    (eval.fn = "orders" /\ eval.done) =>
        /\ eval.k1 # eval.k2 => eval.key1 # eval.key2
        /\ (eval.key1 - 1) % 32 < 8
        /\ (eval.key2 - 1) % 32 < 8
        /\ LET b == eval.k1 \div 8
           IN {orderKey(k) : k \in (8 * b)..((8 * b) + 7)}
                 = ((32 * b) + 1)..((32 * b) + 8)

\* the last key of one group and the first of the next were computed: they
\* land in different blocks of 32
C25_Witness ==
    /\ eval.fn = "orders" /\ eval.done
    /\ eval.k1 = 7 /\ eval.k2 = 8
    /\ eval.key1 = 8 /\ eval.key2 = 33

(***************************************************************************)
(* tpch: cpTable, the copy of one table from src to dest.  cp.n is the     *)
(* number of rows of the source table; the rows are 1..n in the order the  *)
(* cursor yields them.  The batch size of the code is 1000; the model      *)
(* scales it to BatchRows.                                                 *)
(***************************************************************************)
BatchRows == 3        \* if i%1000 == 0
MaxCopyRows == 7      \* source tables of 0..MaxCopyRows rows

\* the database operations of one loop iteration that can fail
RowFailures == {"commit", "begin", "prepare", "scan", "exec"}

InitCopy ==
    /\ Opened("modernc")
    /\ eval = NoEval
    /\ gen = NoGen
    /\ driver = NoDriver
    /\ \E n \in 0..MaxCopyRows :
          cp = [pc |-> "query", n |-> n, i |-> 0, tx |-> 0, pending |-> <<>>,
                dest |-> <<>>, batches |-> <<>>, failed |-> "none",
                err |-> NoErr, closed |-> FALSE]

\* `return err` with the deferred rows.Close
cpReturn(c, e) ==
    [c EXCEPT !.pc = "returned", !.err = e, !.failed = e, !.closed = TRUE]

\* tx.Commit succeeding: the rows inserted in tx are in the destination
cpCommit(c) ==
    [c EXCEPT !.dest = @ \o c.pending, !.batches = Append(@, Len(c.pending)),
              !.pending = <<>>]

\* rows, err := src.Query(...)
CpQuery(fails) ==
    /\ cp.pc = "query"
    /\ cp' = IF fails
             THEN [cp EXCEPT !.pc = "returned", !.err = "query", !.failed = "query"]
             ELSE [cp EXCEPT !.pc = "loop"]
    /\ UNCHANGED <<variant, pc, stmts, calls, heap, estmts, intr, faults,
                   lockVars, poolVars, taskVars, eval, gen, driver>>

\* one iteration of `for i := 0; rows.Next(); i++`; f is the operation of
\* this iteration that fails, if any
cpRow(c, f) ==
    LET first == c.i % BatchRows = 0
        committed == IF first /\ c.i # 0 THEN cpCommit(c) ELSE c
        begun == IF first THEN [committed EXCEPT !.tx = @ + 1] ELSE committed
    IN IF f = "commit" THEN cpReturn([c EXCEPT !.pending = <<>>], f)
       ELSE IF f = "begin" THEN cpReturn(committed, f)
       ELSE IF f \in {"prepare", "scan", "exec"} THEN cpReturn(begun, f)
       ELSE [begun EXCEPT !.pending = Append(@, c.i + 1), !.i = @ + 1]

CpRow(f) ==
    /\ cp.pc = "loop"
    /\ cp.i < cp.n
    /\ f = "commit" => (cp.i % BatchRows = 0 /\ cp.i # 0)
    /\ f \in {"begin", "prepare"} => cp.i % BatchRows = 0
    /\ cp' = cpRow(cp, f)
    /\ UNCHANGED <<variant, pc, stmts, calls, heap, estmts, intr, faults,
                   lockVars, poolVars, taskVars, eval, gen, driver>>

\* rows.Next answered false: rows.Err, then `return tx.Commit()` and the
\* deferred rows.Close.  tx is the nil *sql.Tx when no iteration ran, and
\* Commit on it dereferences nil.
cpEnd(c, f) ==
    IF f = "next" THEN cpReturn(c, f)
    ELSE IF c.tx = 0 THEN [c EXCEPT !.pc = "panicked", !.closed = TRUE]
    ELSE IF f = "commit" THEN cpReturn([c EXCEPT !.pending = <<>>], f)
    ELSE IF f = "close" THEN cpReturn(cpCommit(c), f)
    ELSE [cpCommit(c) EXCEPT !.pc = "returned", !.closed = TRUE]

CpEnd(f) ==
    /\ cp.pc = "loop"
    /\ f # "next" => cp.i = cp.n
    /\ cp' = cpEnd(cp, f)
    /\ UNCHANGED <<variant, pc, stmts, calls, heap, estmts, intr, faults,
                   lockVars, poolVars, taskVars, eval, gen, driver>>

NextCopy ==
    \/ \E fails \in BOOLEAN : CpQuery(fails)
    \/ \E f \in RowFailures \cup {"none"} : CpRow(f)
    \/ \E f \in {"none", "next", "commit", "close"} : CpEnd(f)

SpecCopy == InitCopy /\ [][NextCopy]_vars

\* C26: when cpTable has ended and no database operation failed, it returned
\* without error, the destination holds exactly the source rows, and every
\* committed transaction holds at most the batch size of rows; this for every
\* table size, zero and exact multiples of the batch size included.
C26_CopiesEveryTable ==
    (cp.pc \in {"returned", "panicked"} /\ cp.failed = "none") =>
        /\ cp.pc = "returned"
        /\ cp.err = NoErr
        /\ cp.dest = [k \in 1..cp.n |-> k]
        /\ \A b \in DOMAIN cp.batches : cp.batches[b] <= BatchRows

(***************************************************************************)
(* generator.go: one run of main.  gen.ran lists the steps started so far, *)
(* gen.failed the positions in it of the steps that failed, gen.stderr the *)
(* positions of the steps that wrote to standard error, gen.exit the exit  *)
(* status once the process has ended.                                      *)
(***************************************************************************)
NDownloads == 2       \* len(downloads)
MaxFiles == 2         \* test/*.test and test/*.tcl files found: 0..MaxFiles

MakeSteps == <<"makeSqlite", "makeMpTest", "makeSpeedTest", "makeTestfixture">>

\* what one entry of downloads can meet: the directory is there, the path
\* is there but no directory, os.Stat fails otherwise, the download or the
\* unpacking fails, or it succeeds
DownloadOutcomes == {"present", "notdir", "staterr", "failed", "fetched"}

InitGen ==
    /\ Opened("modernc")
    /\ eval = NoEval
    /\ cp = NoCopy
    /\ driver = NoDriver
    /\ \E n \in 0..MaxFiles :
          gen = [pc |-> "tempdir", k |-> 0, files |-> n, ran |-> <<>>,
                 failed |-> {}, stderr |-> {}, exit |-> "none"]

\* the step g is at starts
genRun(g, name) == [g EXCEPT !.ran = Append(@, name)]

\* the step just started failed and wrote to standard error
genReport(g) ==
    [g EXCEPT !.failed = @ \cup {Len(g.ran)}, !.stderr = @ \cup {Len(g.ran)}]

\* fail(s, args...): fmt.Fprintf(os.Stderr, ...) and os.Exit(1)
fail(g) == [genReport(g) EXCEPT !.pc = "exited", !.exit = 1]

\* download: ioutil.TempDir; when it fails download prints and returns
GenTempDir(fails) ==
    /\ gen.pc = "tempdir"
    /\ gen' = IF fails
              THEN [genReport(genRun(gen, "download")) EXCEPT !.pc = "make", !.k = 1]
              ELSE [gen EXCEPT !.pc = "download", !.k = 1]
    /\ UNCHANGED <<variant, pc, stmts, calls, heap, estmts, intr, faults,
                   lockVars, poolVars, taskVars, eval, cp, driver>>

\* download: one iteration of `for _, v := range downloads`
download(g, out) ==
    LET started == genRun(g, "download")
        done == IF out = "failed" THEN genReport(started)
                ELSE IF out \in {"notdir", "staterr"}
                THEN [started EXCEPT !.stderr = @ \cup {Len(started.ran)}]
                ELSE started
    IN IF g.k = NDownloads THEN [done EXCEPT !.pc = "make", !.k = 1]
       ELSE [done EXCEPT !.k = @ + 1]

GenDownload(out) ==
    /\ gen.pc = "download"
    /\ gen' = download(gen, out)
    /\ UNCHANGED <<variant, pc, stmts, calls, heap, estmts, intr, faults,
                   lockVars, poolVars, taskVars, eval, cp, driver>>

\* makeSqlite, makeMpTest, makeSpeedTest, makeTestfixture: run the
\* transpiler (makeTestfixture runs configure first); f is what fails
make(g, f) ==
    LET started == genRun(g, MakeSteps[g.k])
    IN IF f # "none" THEN fail(started)
       ELSE IF g.k = Len(MakeSteps) THEN [started EXCEPT !.pc = "copy", !.k = 0]
       ELSE [started EXCEPT !.k = @ + 1]

GenMake(f) ==
    /\ gen.pc = "make"
    /\ f = "configure" => MakeSteps[gen.k] = "makeTestfixture"
    /\ gen' = make(gen, f)
    /\ UNCHANGED <<variant, pc, stmts, calls, heap, estmts, intr, faults,
                   lockVars, poolVars, taskVars, eval, cp, driver>>

\* main: os.MkdirAll and the two globs (k = 0), then the copy of file k;
\* main returns after the last file
copy(g, f) ==
    LET started == genRun(g, "copy")
    IN IF f # "none" THEN fail(started)
       ELSE IF g.k = g.files THEN [started EXCEPT !.pc = "exited", !.exit = 0]
       ELSE [started EXCEPT !.k = @ + 1]

GenCopy(f) ==
    /\ gen.pc = "copy"
    /\ f \in {"mkdir", "glob"} => gen.k = 0
    /\ f \in {"read", "write"} => gen.k > 0
    /\ gen' = copy(gen, f)
    /\ UNCHANGED <<variant, pc, stmts, calls, heap, estmts, intr, faults,
                   lockVars, poolVars, taskVars, eval, cp, driver>>

NextGen ==
    \/ \E fails \in BOOLEAN : GenTempDir(fails)
    \/ \E out \in DownloadOutcomes : GenDownload(out)
    \/ \E f \in {"none", "configure", "ccgo"} : GenMake(f)
    \/ \E f \in {"none", "mkdir", "glob", "read", "write"} : GenCopy(f)

SpecGen == InitGen /\ [][NextGen]_vars

\* C27: a download, transpile or copy step that failed has written to
\* standard error, no step was started after it, and the tool, once ended,
\* has a non-zero exit status.
C27_FailureStopsTheTool ==
    \A p \in gen.failed :
        /\ p \in gen.stderr
        /\ p = Len(gen.ran)
        /\ gen.exit # "none" => gen.exit = 1

(***************************************************************************)
(* conn.retry step by step, with its gate mutex.  A gate mutex is a plain  *)
(* lock that any thread may leave: the caller enters it once to block it,  *)
(* registers it with sqlite3_unlock_notify, and enters it a second time to *)
(* wait; the unlock callback leaves it.  gate.mus lists the mutexes        *)
(* allocated so far, the last one being that of the current wait.          *)
(* gate.at: "blocked" after the first enter, "registered" once              *)
(* sqlite3_unlock_notify answered OK, "wait" while the caller is parked in *)
(* the second enter.  gate.firedAt is where the caller was when the        *)
(* callback ran.                                                           *)
(***************************************************************************)
\* mutexAlloc(tls, SQLITE_MUTEX_FAST)
mutexAlloc == [held |-> FALSE, frees |-> 0, heldAtFree |-> FALSE]

\* (*mutex).enter, taken when the mutex is not held
mutexEnter(m) == [m EXCEPT !.held = TRUE]

\* (*mutex).leave
mutexLeave(m) == [m EXCEPT !.held = FALSE]

\* mutexFree(tls, mu)
mutexFree(m) == [m EXCEPT !.frees = @ + 1, !.heldAtFree = @ \/ m.held]

\* the mutex of the current lock wait
GateMu == gate.mus[Len(gate.mus)]

\* unlockNotify: the engine hands back the one registered mutex and the
\* callback leaves it
unlockNotifyParked(g) ==
    IF g.at = "wait"
    THEN [g EXCEPT !.mus[Len(g.mus)] = mutexLeave(@), !.fired = TRUE,
                   !.firedAt = g.at]
    ELSE [g EXCEPT !.fired = TRUE, !.firedAt = g.at]

unlockNotify(g) ==
    [g EXCEPT !.mus[Len(g.mus)] = mutexLeave(@), !.fired = TRUE, !.firedAt = g.at]

\* conn.retry on the deadlock answer: `leave // Clear` and mutexFree
retryDeadlockHeld(g) ==
    [g EXCEPT !.at = "none", !.mus[Len(g.mus)] = mutexFree(@)]

retryDeadlock(g) ==
    [g EXCEPT !.at = "none", !.mus[Len(g.mus)] = mutexFree(mutexLeave(@))]

\* conn.retry: mutexAlloc and `enter // Block`
RetryBlock ==
    /\ pc = "lockwait"
    /\ lockw.at = "retry"
    /\ gate.at = "none"
    /\ gate' = [at |-> "blocked", mus |-> Append(gate.mus, mutexEnter(mutexAlloc)),
                registered |-> FALSE, fired |-> FALSE, firedAt |-> "none"]
    /\ UNCHANGED <<variant, pc, stmts, calls, heap, estmts, intr, faults,
                   lockw, poolVars, taskVars, toolVars>>

\* conn.retry: sqlite3_unlock_notify answers ans.  LOCKED: `leave // Clear`,
\* mutexFree, return the error.  OK: the callback is registered; the engine
\* runs it before answering (early) when the blocking connection has
\* already finished.
RetryNotify(ans, early) ==
    /\ pc = "lockwait"
    /\ lockw.at = "retry"
    /\ gate.at = "blocked"
    /\ ans \in {"OK", "LOCKED"}
    /\ early => ans = "OK"
    /\ IF ans = "LOCKED"
       THEN /\ Deadlocked
            /\ lockw' = [lockw EXCEPT !.at = "none", !.notify = ans, !.cells = <<>>]
            /\ gate' = retryDeadlock(gate)
       ELSE /\ lockw' = [lockw EXCEPT !.at = "gate", !.notify = ans, !.gates = @ + 1]
            /\ LET g == [gate EXCEPT !.at = "registered", !.registered = TRUE]
               IN gate' = IF early THEN [unlockNotify(g) EXCEPT !.registered = FALSE]
                          ELSE g
            /\ UNCHANGED <<pc, stmts, calls, heap, estmts>>
    /\ UNCHANGED <<variant, intr, faults, poolVars, taskVars, toolVars>>

\* the engine, on the thread of the connection that held the lock, runs the
\* registered callback
UnlockNotify ==
    /\ gate.at \in {"registered", "wait"}
    /\ gate.registered
    /\ gate' = [unlockNotify(gate) EXCEPT !.registered = FALSE]
    /\ UNCHANGED <<variant, pc, stmts, calls, heap, estmts, intr, faults,
                   lockw, poolVars, taskVars, toolVars>>

\* conn.retry past its second enter: `leave // Clear`, mutexFree,
\* sqlite3_reset of the statement it was given, return nil; the loop of the
\* caller goes round
retryResume ==
    /\ gate' = [gate EXCEPT !.at = "none",
                            !.mus[Len(gate.mus)] =
                                mutexFree(mutexLeave(mutexEnter(@)))]
    /\ lockw' = [lockw EXCEPT !.at = "resumed"]
    /\ LET p == IF lockw.op = "step" THEN Cur.pstmt
                ELSE IF lockw.op = "next" THEN calls[lockw.k].r.pstmt ELSE 0
       IN estmts' = IF p # 0 THEN [estmts EXCEPT ![p].resets = @ + 1] ELSE estmts
    /\ pc' = IF lockw.op = "step" THEN "restep"
             ELSE IF lockw.op = "prepare" THEN "reprepare" ELSE "renext"

\* conn.retry: `enter // Wait`; it parks when the mutex is still held
RetryEnter ==
    /\ pc = "lockwait"
    /\ gate.at = "registered"
    /\ IF GateMu.held
       THEN /\ gate' = [gate EXCEPT !.at = "wait"]
            /\ UNCHANGED <<pc, lockw, estmts>>
       ELSE retryResume
    /\ UNCHANGED <<variant, stmts, calls, heap, intr, faults,
                   poolVars, taskVars, toolVars>>

\* the parked caller gets the mutex the callback has left
RetryWake ==
    /\ pc = "lockwait"
    /\ gate.at = "wait"
    /\ ~GateMu.held
    /\ retryResume
    /\ UNCHANGED <<variant, stmts, calls, heap, intr, faults,
                   poolVars, taskVars, toolVars>>

\* SpecGate: lock waits of the modernc build, conn.retry taken step by step
InitGate == Opened("modernc") /\ ToolsIdle

NextGate ==
    \/ Step({<<>>}, {<<>>}, {"background"})
    \/ \E rc \in LockCodes : StepLocked(rc)
    \/ \E rc \in {"ROW", "DONE", "ERR"} : StepAgain(rc)
    \/ \E rc \in LockCodes : PrepareLocked(rc)
    \/ \E kind \in SegKinds : PrepareAgain(kind, <<>>)
    \/ \E k \in DOMAIN calls, rc \in LockCodes : NextLocked(k, rc)
    \/ \E rc \in {"ROW", "DONE", "ERR"} : NextAgain(rc)
    \/ RetryBlock
    \/ \E ans \in {"OK", "LOCKED"}, early \in BOOLEAN : RetryNotify(ans, early)
    \/ UnlockNotify
    \/ RetryEnter
    \/ RetryWake

SpecGate == InitGate /\ [][NextGate]_vars

\* a caller that can enter the gate does so: the scheduler runs it
SpecGateLive == SpecGate /\ WF_vars(RetryEnter) /\ WF_vars(RetryWake)

\* the caller is back in the loop that observed the lock, about to make the
\* same engine call again
Retrying ==
    /\ lockw.at = "resumed"
    /\ pc = IF lockw.op = "step" THEN "restep"
            ELSE IF lockw.op = "prepare" THEN "reprepare" ELSE "renext"

\* C31: once the unlock callback has run for a lock wait, whether the caller
\* was already parked in the gate or had not yet started to wait, the caller
\* leaves the gate and is about to retry the engine call that observed the
\* lock.
C31_CallbackReleasesCaller ==
    (gate.at \in {"registered", "wait"} /\ gate.fired) ~> Retrying

\* the callback ran before the caller started to wait, and the caller is
\* retrying
C31_Witness ==
    /\ Retrying
    /\ gate.fired
    /\ gate.firedAt = "registered"
    /\ gate.at = "none"

\* C38: every gate mutex of a lock wait that is over has been freed exactly
\* once, the current one has not been freed, and no mutex was held when it
\* was freed; this on the deadlock path as on the wake-up path.
C38_GateFreedOnce ==
    \A i \in DOMAIN gate.mus :
        /\ gate.mus[i].frees = IF i = Len(gate.mus) /\ gate.at # "none" THEN 0 ELSE 1
        /\ ~gate.mus[i].heldAtFree

\* one lock wait ended in a wake-up and the next in a deadlock
C38_Witness ==
    /\ Len(gate.mus) = 2
    /\ gate.at = "none"
    /\ lockw.notify = "LOCKED"
    /\ lockw.gates = 1

(***************************************************************************)
(* tx.exec: the statement of Begin, Commit and Rollback, run with          *)
(* sqlite3_exec under a watcher of its own.  newTx, Commit and Rollback    *)
(* all pass context.Background().                                          *)
(***************************************************************************)
TxStatements == {"begin", "commit", "rollback"}

\* tx.exec up to sqlite3_exec: the C string, donech, the watcher
TxExec(sql, fails) ==
    /\ pc = "idle"
    /\ Len(calls) < MaxCalls
    /\ sql \in TxStatements
    /\ Injected(fails)
    /\ LET c == NewCall("tx", "tx", 0, <<>>, "background")
       IN IF fails
          THEN \* crt.CString failed: no watcher was started
               /\ calls' = Append(calls, [Fail(c, ErrNoMem) EXCEPT
                                            !.watcher = "none", !.donech = "none"])
               /\ heap' = heap
               /\ pc' = "idle"
          ELSE /\ calls' = Append(calls, [c EXCEPT !.allocs = <<Len(heap) + 1>>])
               /\ heap' = malloc(heap, "sql", Len(calls) + 1)
               /\ pc' = "txexec"
    /\ UNCHANGED <<variant, stmts, estmts, intr,
                   lockVars, poolVars, taskVars, toolVars>>

\* sqlite3_exec answers; the deferred close(donech) and free(psql) run
TxDone(rc) ==
    /\ pc = "txexec"
    /\ rc \in {"OK", "ERR"}
    /\ Finish(IF rc = "OK" THEN [Cur EXCEPT !.res = "ok", !.allocs = <<>>]
              ELSE [Fail(Cur, errstr(rc)) EXCEPT !.allocs = <<>>],
              free(heap, Cur.allocs[1]), estmts, stmts)
    /\ UNCHANGED <<variant, intr, faults,
                   lockVars, poolVars, taskVars, toolVars>>

\* one step of the watcher goroutine of some call
Watcher ==
    \E k \in DOMAIN calls :
        \/ \E case \in {"ctx", "done", "block"} : WatcherSelect(k, case)
        \/ WatcherWake(k)
        \/ WatcherFire(k)
        \/ WatcherInterrupt(k)

\* SpecWatch: Exec, Query and transaction statements with their watchers
NextWatch ==
    \/ Step({<<>>}, {<<>>}, {"live"})
    \/ \E sql \in TxStatements, fails \in BOOLEAN : TxExec(sql, fails)
    \/ \E rc \in {"OK", "ERR"} : TxDone(rc)
    \/ \E k \in DOMAIN calls, case \in {"ctx", "done", "block"} : WatcherSelect(k, case)
    \/ \E k \in DOMAIN calls : WatcherWake(k)
    \/ \E k \in DOMAIN calls : WatcherFire(k)
    \/ \E k \in DOMAIN calls : WatcherInterrupt(k)
    \/ \E k \in DOMAIN calls : Cancel(k)

SpecWatch == Init /\ [][NextWatch]_vars

\* a goroutine that can run is run
SpecWatchLive == SpecWatch /\ WF_vars(Watcher)

\* C32: the watcher of a call that has returned, on whatever path, and the
\* watcher of a call whose context was cancelled, eventually exits; this for
\* Exec, Query and transaction statements, cancelled or not.
C32_WatcherTerminates ==
    \A k \in 1..MaxCalls :
        (k \in DOMAIN calls /\ (Returned(calls[k]) \/ Cancelled(calls[k])))
            ~> (k \in DOMAIN calls /\ calls[k].watcher \in {"exited", "none"})

\* the watcher of a call that failed under a context never cancelled has
\* exited through donech
C32_Witness ==
    \E k \in DOMAIN calls :
        /\ calls[k].res = "err"
        /\ calls[k].ctx = "live"
        /\ calls[k].watcher = "exited"
        /\ calls[k].took = "done"

(***************************************************************************)
(* Open in the two builds of src/sqlite.go.  pool[i] is the connection of  *)
(* the i-th newConn: st "open" (returned to the host), "failing" (newConn  *)
(* has failed and released the mutex, the close it deferred is pending),   *)
(* "failed" (newConn has returned its error), "closed"; db says that the   *)
(* connection remembers a handle (c.db, c.ppdb); handle says that the      *)
(* engine holds the database handle it made for this connection.           *)
(***************************************************************************)
\* where newConn can fail
OpenOutcomes == {"ok", "malloc", "cstring", "open", "ext"}

\* the connection when newConn returns (lines 563-581) or reaches its
\* deferred close (lines 1888-1916); `handed` says that a failing
\* sqlite3_open_v2 handed a handle back all the same
newConn(var, out, handed) ==
    LET made == out \in {"ok", "ext"} \/ (out = "open" /\ handed)
    IN IF var = "modernc"
       THEN \* openV2 returns 0 for the handle on every error and newConn
            \* sets c.db after openV2 only; no error path closes anything
            [st |-> IF out = "ok" THEN "open" ELSE "failed",
             db |-> out \in {"ok", "ext"},
             handle |-> made]
       ELSE \* openV2 sets c.ppdb before the engine call
            [st |-> IF out = "ok" THEN "open" ELSE "failing",
             db |-> out \in {"ok", "ext", "open"},
             handle |-> made]

\* conn.Close (1006-1016) and conn.close (2148-2157): closeV2 if a handle is
\* remembered; `fails` says that sqlite3_close_v2 answers an error, which
\* leaves the handle and the connection's memory of it
connClose(c, fails) ==
    IF c.db /\ ~fails
    THEN [c EXCEPT !.db = FALSE, !.handle = FALSE]
    ELSE c

OpenConn(out, handed) ==
    /\ variant \in {"modernc", "cznic"}
    /\ Len(pool) < MaxConns
    /\ out \in OpenOutcomes
    /\ handed \in BOOLEAN
    /\ out # "open" => handed
    /\ pool' = Append(pool, newConn(variant, out, handed))
    /\ UNCHANGED <<variant, pc, stmts, calls, heap, estmts, intr, faults,
                   lockVars, conns, vm, taskVars, toolVars>>

\* the deferred `if err != nil { c.close() }` of lines 1891-1895
OpenConnFailed(i, fails) ==
    /\ i \in DOMAIN pool
    /\ pool[i].st = "failing"
    /\ fails \in BOOLEAN
    /\ fails => pool[i].db
    /\ pool' = [pool EXCEPT ![i] = [connClose(@, fails) EXCEPT !.st = "failed"]]
    /\ UNCHANGED <<variant, pc, stmts, calls, heap, estmts, intr, faults,
                   lockVars, conns, vm, taskVars, toolVars>>

\* the host closes a connection it was handed
CloseConn(i, fails) ==
    /\ i \in DOMAIN pool
    /\ pool[i].st = "open"
    /\ fails \in BOOLEAN
    /\ pool' = [pool EXCEPT ![i] = [connClose(@, fails) EXCEPT !.st = "closed"]]
    /\ UNCHANGED <<variant, pc, stmts, calls, heap, estmts, intr, faults,
                   lockVars, conns, vm, taskVars, toolVars>>

InitOpen == \E v \in {"modernc", "cznic"} : Opened(v) /\ ToolsIdle

NextOpen ==
    \/ \E out \in OpenOutcomes, handed \in BOOLEAN : OpenConn(out, handed)
    \/ \E i \in DOMAIN pool, fails \in BOOLEAN : OpenConnFailed(i, fails)
    \/ \E i \in DOMAIN pool, fails \in BOOLEAN : CloseConn(i, fails)

SpecOpen == InitOpen /\ [][NextOpen]_vars

\* C35: a connection whose newConn has returned an error has no database
\* handle left open in the engine.
C35_FailedOpenClosesHandle ==
    \A i \in DOMAIN pool : pool[i].st = "failed" => ~pool[i].handle

(***************************************************************************)
(* generator.go, download() over several runs of the tool on one disk.     *)
(* gen.disk[k] counts the entries of archive k that are on disk: 0 when    *)
(* the directory of downloads[k] does not exist, 1 once the archive's      *)
(* directory entry was made, ZipEntries when every file is written.        *)
(* gen.start is the disk at the start of the run, gen.tried the entries of *)
(* downloads the run has fetched, gen.failed those whose fetch or          *)
(* unpacking failed in the run (0: ioutil.TempDir).                        *)
(***************************************************************************)
ZipEntries == 3       \* entries of one archive: its directory, then files
MaxRuns == 2          \* runs of the tool

NoDisk == [k \in 1..NDownloads |-> 0]

\* the loop of download goes on with the next entry, or download returns
nextDownload(g) ==
    IF g.k = NDownloads THEN [g EXCEPT !.pc = "ended"] ELSE [g EXCEPT !.k = @ + 1, !.pc = "stat"]

InitRerun ==
    /\ Opened("modernc")
    /\ eval = NoEval
    /\ cp = NoCopy
    /\ driver = NoDriver
    /\ gen = [pc |-> "tempdir", run |-> 1, k |-> 1, disk |-> NoDisk,
              start |-> NoDisk, tried |-> {}, failed |-> {}]

\* ioutil.TempDir; when it fails download prints and returns
RerunTempDir(fails) ==
    /\ gen.pc = "tempdir"
    /\ gen' = IF fails THEN [gen EXCEPT !.pc = "ended", !.failed = @ \cup {0}]
              ELSE [gen EXCEPT !.pc = "stat"]
    /\ UNCHANGED <<variant, pc, stmts, calls, heap, estmts, intr, faults,
                   lockVars, poolVars, taskVars, eval, cp, driver>>

\* os.Stat(dir): a directory that exists is skipped, whatever it holds
stat(g) ==
    IF g.disk[g.k] >= 1 THEN nextDownload(g) ELSE [g EXCEPT !.pc = "fetch"]

RerunStat ==
    /\ gen.pc = "stat"
    /\ gen' = stat(gen)
    /\ UNCHANGED <<variant, pc, stmts, calls, heap, estmts, intr, faults,
                   lockVars, poolVars, taskVars, eval, cp, driver>>

\* http.Get and the copy of the body to a file in the temporary directory
fetch(g, fails) ==
    LET t == [g EXCEPT !.tried = @ \cup {g.k}]
    IN IF fails THEN nextDownload([t EXCEPT !.failed = @ \cup {g.k}])
       ELSE [t EXCEPT !.pc = "unzip"]

RerunFetch(fails) ==
    /\ gen.pc = "fetch"
    /\ gen' = fetch(gen, fails)
    /\ UNCHANGED <<variant, pc, stmts, calls, heap, estmts, intr, faults,
                   lockVars, poolVars, taskVars, eval, cp, driver>>

\* one entry of the archive: os.MkdirAll for a directory, the copy for a
\* file; an error ends the unpacking and is printed
unzip(g, fails) ==
    IF fails THEN nextDownload([g EXCEPT !.failed = @ \cup {g.k}])
    ELSE LET d == [g EXCEPT !.disk[g.k] = @ + 1]
         IN IF d.disk[g.k] = ZipEntries THEN nextDownload(d) ELSE d

RerunUnzip(fails) ==
    /\ gen.pc = "unzip"
    /\ gen' = unzip(gen, fails)
    /\ UNCHANGED <<variant, pc, stmts, calls, heap, estmts, intr, faults,
                   lockVars, poolVars, taskVars, eval, cp, driver>>

\* the tool is run again on the disk the last run left
RerunAgain ==
    /\ gen.pc = "ended"
    /\ gen.run < MaxRuns
    /\ gen' = [gen EXCEPT !.pc = "tempdir", !.run = @ + 1, !.k = 1,
                          !.start = gen.disk, !.tried = {}, !.failed = {}]
    /\ UNCHANGED <<variant, pc, stmts, calls, heap, estmts, intr, faults,
                   lockVars, poolVars, taskVars, eval, cp, driver>>

NextRerun ==
    \/ \E fails \in BOOLEAN : RerunTempDir(fails)
    \/ RerunStat
    \/ \E fails \in BOOLEAN : RerunFetch(fails)
    \/ \E fails \in BOOLEAN : RerunUnzip(fails)
    \/ RerunAgain

SpecRerun == InitRerun /\ [][NextRerun]_vars

\* C36: when a later run of download has ended, it has fetched every entry
\* of downloads whose tree was not complete on disk when the run started,
\* and if nothing failed in that run every tree is complete on disk.
C36_RerunRecovers ==
    (gen.pc = "ended" /\ gen.run >= 2 /\ 0 \notin gen.failed) =>
        /\ \A k \in 1..NDownloads : gen.start[k] < ZipEntries => k \in gen.tried
        /\ gen.failed = {} => \A k \in 1..NDownloads : gen.disk[k] = ZipEntries

(***************************************************************************)
(* tpch/driver: the registry of systems under test.  driver.registered is  *)
(* the map, a function from names to SUTs; driver.log lists the SUTs       *)
(* Register was called with, driver.op, driver.arg and driver.ret are the  *)
(* last call, its argument and what it returned ("panic" when it           *)
(* panicked), driver.before is the map when that call started.             *)
(***************************************************************************)
MaxRegs == 3          \* Register calls in one behaviour

SUTNames == {"a", "b"}

\* the SUT values: two distinct ones under every name
SUTs == [name : SUTNames, id : 1..2]

\* the nil SUT
NoSUT == [name |-> "", id |-> 0]

\* Register without the check for a name that is registered
RegisterOverwrite(m, sut) ==
    [registered |-> [n \in DOMAIN m \cup {sut.name} |-> IF n = sut.name THEN sut ELSE m[n]],
     ret |-> "none"]

\* Register: [registered, ret]
Register(m, sut) ==
    IF sut.name \in DOMAIN m
    THEN [registered |-> m, ret |-> "panic"]
    ELSE [registered |-> [n \in DOMAIN m \cup {sut.name} |->
                             IF n = sut.name THEN sut ELSE m[n]],
          ret |-> "none"]

\* Open: the map's value, the zero value for a missing key
Open(m, name) == IF name \in DOMAIN m THEN m[name] ELSE NoSUT

\* List: the keys appended in the order `range` yields them, which is any
List(m) ==
    {r \in [1..Cardinality(DOMAIN m) -> DOMAIN m] :
        \A i, j \in DOMAIN r : r[i] = r[j] => i = j}

InitRegistry ==
    /\ Opened("modernc")
    /\ eval = NoEval
    /\ cp = NoCopy
    /\ gen = NoGen
    /\ driver = NoDriver

DriverRegister(sut) ==
    /\ sut \in SUTs
    /\ Len(driver.log) < MaxRegs
    /\ LET x == Register(driver.registered, sut)
       IN driver' = [registered |-> x.registered, log |-> Append(driver.log, sut),
                     op |-> "Register", arg |-> sut.name,
                     before |-> driver.registered, ret |-> x.ret]
    /\ UNCHANGED <<variant, pc, stmts, calls, heap, estmts, intr, faults,
                   lockVars, poolVars, taskVars, eval, cp, gen>>

DriverOpen(name) ==
    /\ name \in SUTNames
    /\ driver' = [driver EXCEPT !.op = "Open", !.arg = name,
                                !.before = driver.registered,
                                !.ret = Open(driver.registered, name)]
    /\ UNCHANGED <<variant, pc, stmts, calls, heap, estmts, intr, faults,
                   lockVars, poolVars, taskVars, eval, cp, gen>>

DriverList ==
    /\ \E r \in List(driver.registered) :
          driver' = [driver EXCEPT !.op = "List", !.arg = "none",
                                   !.before = driver.registered, !.ret = r]
    /\ UNCHANGED <<variant, pc, stmts, calls, heap, estmts, intr, faults,
                   lockVars, poolVars, taskVars, eval, cp, gen>>

NextRegistry ==
    \/ \E sut \in SUTs : DriverRegister(sut)
    \/ \E name \in SUTNames : DriverOpen(name)
    \/ DriverList

SpecRegistry == InitRegistry /\ [][NextRegistry]_vars

\* the positions in the log of the Register calls for name n
RegsOf(n) == {i \in DOMAIN driver.log : driver.log[i].name = n}

\* the SUT of the first Register call for name n
FirstSUT(n) == driver.log[CHOOSE i \in RegsOf(n) : \A j \in RegsOf(n) : i <= j]

\* C37: the registry holds exactly the names Register was called with, each
\* mapped to the SUT of the first call under that name; a Register under a
\* name that was registered has panicked and left the map as it was, and
\* every other Register has not panicked; Open has returned the registered
\* SUT, or the nil SUT for a name that is not registered; List has returned
\* every registered name once and nothing else.
C37_RegistryKeepsFirst ==
    /\ DOMAIN driver.registered = {driver.log[i].name : i \in DOMAIN driver.log}
    /\ \A n \in DOMAIN driver.registered : driver.registered[n] = FirstSUT(n)
    /\ driver.op = "Register" =>
          IF driver.arg \in DOMAIN driver.before
          THEN driver.ret = "panic" /\ driver.registered = driver.before
          ELSE driver.ret = "none"
    /\ driver.op = "Open" =>
          driver.ret = IF RegsOf(driver.arg) # {} THEN FirstSUT(driver.arg) ELSE NoSUT
    /\ driver.op = "List" =>
          /\ Len(driver.ret) = Cardinality(DOMAIN driver.registered)
          /\ \A n \in DOMAIN driver.registered :
                Cardinality({i \in DOMAIN driver.ret : driver.ret[i] = n}) = 1

\* a second SUT was registered under a name that was taken, with two names
\* in the registry: the call panicked
C37_Witness ==
    /\ driver.op = "Register"
    /\ driver.ret = "panic"
    /\ Len(driver.log) = 3
    /\ driver.log[3].name = driver.log[1].name
    /\ driver.log[3] # driver.log[1]
    /\ Cardinality(DOMAIN driver.registered) = 2
    /\ driver.registered[driver.log[1].name] = driver.log[1]

=============================================================================
